---- MODULE Spec2Model ----
(***************************************************************************)
(* Verification model of hashi (cwhde/hashi): the scheduler that starts    *)
(* reconciliation cycles, the cycle itself (DNSSync.runOnce and the zone   *)
(* reconciler), the retried TXT topology query and the protocol/port       *)
(* detection of the monitoring generator.                                  *)
(*                                                                         *)
(* Each subsystem has its own specification over the shared variable list; *)
(* a specification leaves the variables of the other subsystems at their   *)
(* idle values.                                                            *)
(***************************************************************************)
EXTENDS Integers, Sequences, FiniteSets, TLC

VARIABLES
  \* ---- Scheduler (src/services/scheduler.js, server.js state) ----
  syncState,      \* state.syncState: "IDLE" | "RUNNING" | "ERROR"
  currentRunId,   \* state.currentRunId: "null" | "id"
  loggerRunId,    \* logger.currentRunId: "null" | "id"
  lastRun,        \* state.lastRun: "null" | "set"
  lastResult,     \* state.lastResult: "null" | "ok" | "fail"
  timer,          \* this.timer: "null" | "live" (handle of a pending timeout) | "stale"
  orphanTimers,   \* pending scheduled-run timeouts no longer referenced by this.timer
  errTimers,      \* pending 5s ERROR -> IDLE timeouts
  inflight,       \* runOnce calls in flight, each the `manual` flag of its runSync
  started,        \* server.js has called scheduler.start()
  lastReturn,     \* what the latest runSync / POST /sync call answered
  \* ---- Topology TXT query (utils/dns.js queryTXT, core/topology.js) ----
  dnsModule,      \* which dns.js the import resolves to: "retry" | "single"
  txtPayload,     \* the TXT record content the resolver would answer with
  txtPc,          \* "idle" | "attempt" | "sleep" | "done"
  txtAttempt,     \* loop variable `attempt`
  txtLog,         \* events of the call: "ok" | "fail" (one attempt each) | "sleep"
  txtMapping,     \* value returned by getHostSubnetMapping
  txtErrLogged,   \* logger.error(`Error querying topology ...`) was called
  txtRaised,      \* getHostSubnetMapping threw to its caller
  \* ---- Protocol/port detection (core/gatus.js detectProtocolAndPort) ----
  detOverride,    \* this.portOverrides[subdomain]: NoPort (undefined) or a port
  detSubdomain,   \* the `subdomain` argument: "" or a name
  detOpen,        \* ports of the target that accept a TCP connection
  detPc,          \* "idle" | "probing" | "done"
  detIdx,         \* index into CHECK_ORDER of the probe in flight
  detProbes,      \* ports probed so far by checkPort, in call order
  detResult,      \* returned {protocol, port}
  \* ---- Reconciliation cycle (core/sync.js DNSSync.runOnce) ----
  dnsZone,        \* records held by the zone API
  directory,      \* resources the directory lists
  keepSubdomains, \* config.keepSubdomains
  ignoreSubdomains, \* config.ignoreSubdomains
  file,           \* content of the monitoring output file
  cycPc,          \* step runOnce is suspended in, "idle" before the first call, "done" after a return
  cycleNo,        \* number of runOnce calls made so far
  failures,       \* injected failures so far (network errors, I/O errors, exceptions)
  runFailed,      \* some call or step of the current run failed
  prevFailed,     \* some call or step of an earlier run failed
  hostMapping,    \* topology mapping of this run
  genState,       \* gatusGenerator.subnetToHostname / hostnames
  pangolinPairs,  \* pangolinPairs of this run
  currentCnames,  \* reconciler's lookup of current managed CNAMEs
  expectedCnames, \* reconciler's expected records
  reconciled,     \* the reconciler built its lookups in this run
  work,           \* API calls the delete and upsert loops have still to make
  calls,          \* dnsZone API calls made in this run, in order
  hetznerRecords, \* records returned by syncHetznerDns
  newContent,     \* serialized config handed to writeGatusConfig
  fileBefore,     \* file content when writeGatusConfig was called
  wrote,          \* return value of writeGatusConfig
  renamed,        \* renameSync replaced the output file in this run
  ioFailed,       \* the temp-file write or the rename of this run failed
  prevMutations,  \* delete/update/create calls made in earlier runs
  threw,          \* a step of this run threw
  hetznerZoneId,  \* config.hetznerZoneId handed to the client ('' when not set)
  zoneId,         \* what getZoneId returned in this run
  steps,          \* the steps of this run that have finished, in order
  result,         \* what runOnce returned
  dirCalls,       \* Resource Directory calls made in this run, in order
  \* ---- One writeGatusConfig call seen from the file system ----
  wrOld,          \* the output file when the call starts
  wrNew,          \* yaml.dump(config), as a sequence of blocks
  wrFs,           \* the files of the output directory: path -> file
  wrPc,           \* position of the call
  wrReturn,       \* "none" | "true" | "false"
  \* ---- One ipInSubnet call on address strings ----
  ipArg,          \* the address: its dot-separated parts, each a string
  ipSubnet,       \* the subnet string: address parts and prefix part
  ipPc,           \* "idle" | "done" | "failed"
  ipResult,       \* what ipInSubnet returned
  \* ---- Generator configuration and one generateConfig call ----
  cfgSkipTechnical, \* config.gatusSkipTechnicalCnames
  cfgAggressive,  \* config.gatusAggressiveHostFiltering
  gcSt,           \* the generator's host state (subnetToHostname, hostnames)
  gcPairs,        \* the pairs the entries are made of
  gcRecords,      \* the zone records handed to generateGatusConfig
  gcKeep,         \* config.keepSubdomains
  gcIgnore,       \* config.ignoreSubdomains
  gcPc,           \* "idle" | "done" | "failed"
  gcOut,          \* the endpoints generated, each with the name and domain it came from
  \* ---- One getPangolinDomainCnamePairs call over full resource records ----
  pbResources,    \* the resources listed, each with its live and embedded targets
  pbMapping,      \* the host mapping of the cycle: on.<host> -> subnet string
  pbIdx,          \* the resource the loop is at
  pbPairs,        \* the pairs pushed so far
  pbPc,           \* "idle" | "loop" | "done"
  \* ---- The parsing of one TXT payload, character by character ----
  tpEntries,      \* the comma-separated entries the payload is made of
  tpMapping,      \* the mapping getHostSubnetMapping returns
  tpPc,           \* "idle" | "done" | "failed"
  \* ---- One call of the Resource Directory client (PangolinAPI) ----
  rdCall,         \* "listOrgs" | "listResources" | "getResourceTargets"
  rdBody,         \* the JSON body the request is answered with
  rdResult,       \* what the call returns
  rdOrgId,        \* what getOrgId returns when it had to list the organizations
  rdPc,           \* "idle" | "done" | "failed"
  \* ---- One call of listRecords (HetznerDNS) ----
  lrPage,         \* the page being requested
  lrAnswers,      \* the answers of the server to the requests so far, in order
  lrRequested,    \* the page numbers requested so far, in order
  lrAll,          \* allRecords
  lrResult,       \* what the call returns
  lrPc,           \* "idle" | "request" | "done" | "failed"
  \* ---- The grouping of one resource-derived endpoint (getGroupForTarget) ----
  ggMapping,      \* the topology mapping of the cycle
  ggTarget,       \* the target address of the resource entry
  ggDomain,       \* the full domain of the resource entry
  ggCname,        \* the cname getCnameForIp chose for the pair
  ggSt,           \* subnetToHostname and hostnames of the generator
  ggGroup,        \* the group of the endpoint
  ggPc,           \* "idle" | "paired" | "mapped" | "grouped"
  \* ---- Registration (auth.js AuthService.register) ----
  regAuth,        \* config.auth: the stored username and password hash
  regFile,        \* the auth section of the saved configuration file
  regPc,          \* per register call: "idle", "hashing" (awaiting bcrypt.hash), "done"
  regArgs,        \* per register call: the username and password it was given
  regReturn       \* per register call: the value it returned

schedVars == <<syncState, currentRunId, loggerRunId, lastRun, lastResult,
               timer, orphanTimers, errTimers, inflight, started, lastReturn>>

txtVars == <<dnsModule, txtPayload, txtPc, txtAttempt, txtLog, txtMapping,
             txtErrLogged, txtRaised>>

detVars == <<detOverride, detSubdomain, detOpen, detPc, detIdx, detProbes, detResult>>

cycVars == <<dnsZone, directory, keepSubdomains, ignoreSubdomains, file, cycPc,
             cycleNo, failures,
             runFailed, prevFailed, hostMapping, genState, pangolinPairs, currentCnames,
             expectedCnames, reconciled, work, calls, hetznerRecords, newContent,
             fileBefore, wrote, renamed, ioFailed, prevMutations, threw, hetznerZoneId,
             zoneId, steps, result, dirCalls>>

wrVars == <<wrOld, wrNew, wrFs, wrPc, wrReturn>>

ipVars == <<ipArg, ipSubnet, ipPc, ipResult>>

genVars == <<cfgSkipTechnical, cfgAggressive, gcSt, gcPairs, gcRecords, gcKeep,
             gcIgnore, gcPc, gcOut>>

pbVars == <<pbResources, pbMapping, pbIdx, pbPairs, pbPc>>

tpVars == <<tpEntries, tpMapping, tpPc>>

rdVars == <<rdCall, rdBody, rdResult, rdOrgId, rdPc>>

lrVars == <<lrPage, lrAnswers, lrRequested, lrAll, lrResult, lrPc>>

ggVars == <<ggMapping, ggTarget, ggDomain, ggCname, ggSt, ggGroup, ggPc>>

regVars == <<regAuth, regFile, regPc, regArgs, regReturn>>

vars == <<schedVars, txtVars, detVars, cycVars, wrVars, ipVars, genVars, pbVars, tpVars, rdVars, lrVars, ggVars, regVars>>

\* The variables each subsystem leaves alone.
othersSched == <<txtVars, detVars, cycVars, wrVars, ipVars, genVars, pbVars, tpVars, rdVars, lrVars, ggVars, regVars>>
othersTxt == <<schedVars, detVars, cycVars, wrVars, ipVars, genVars, pbVars, tpVars, rdVars, lrVars, ggVars, regVars>>
othersDet == <<schedVars, txtVars, cycVars, wrVars, ipVars, genVars, pbVars, tpVars, rdVars, lrVars, ggVars, regVars>>
othersCyc == <<schedVars, txtVars, detVars, wrVars, ipVars, genVars, pbVars, tpVars, rdVars, lrVars, ggVars, regVars>>
othersWr == <<schedVars, txtVars, detVars, cycVars, ipVars, genVars, pbVars, tpVars, rdVars, lrVars, ggVars, regVars>>
othersGen == <<schedVars, txtVars, detVars, cycVars, wrVars, ipVars, pbVars, tpVars, rdVars, lrVars, ggVars, regVars>>
othersIp == <<schedVars, txtVars, detVars, cycVars, wrVars, genVars, pbVars, tpVars, rdVars, lrVars, ggVars, regVars>>
othersReg == <<schedVars, txtVars, detVars, cycVars, wrVars, ipVars, genVars, pbVars, tpVars, rdVars, lrVars, ggVars>>
othersGg == <<schedVars, txtVars, detVars, cycVars, wrVars, ipVars, genVars, pbVars, tpVars, rdVars, lrVars, regVars>>
othersLr == <<schedVars, txtVars, detVars, cycVars, wrVars, ipVars, genVars, pbVars, tpVars, rdVars, ggVars, regVars>>
othersRd == <<schedVars, txtVars, detVars, cycVars, wrVars, ipVars, genVars, pbVars, tpVars, lrVars, ggVars, regVars>>
othersTp == <<schedVars, txtVars, detVars, cycVars, wrVars, ipVars, genVars, pbVars, rdVars, lrVars, ggVars, regVars>>
othersPb == <<schedVars, txtVars, detVars, cycVars, wrVars, ipVars, genVars, tpVars, rdVars, lrVars, ggVars, regVars>>

-----------------------------------------------------------------------------
(***************************************************************************)
(* Scheduler                                                               *)
(***************************************************************************)

\* Bounds of the scheduler model.
MaxOrphans == 2
MaxErrTimers == 2
MaxInflight == 2

SyncStates == {"IDLE", "RUNNING", "ERROR"}

\* Number of pending scheduled-run timeouts.
PendingTimers == (IF timer = "live" THEN 1 ELSE 0) + orphanTimers

SchedInit ==
  /\ syncState = "IDLE"
  /\ currentRunId = "null"
  /\ loggerRunId = "null"
  /\ lastRun = "null"
  /\ lastResult = "null"
  /\ timer = "null"
  /\ orphanTimers = 0
  /\ errTimers = 0
  /\ inflight = <<>>
  /\ started = FALSE
  /\ lastReturn = "none"

\* scheduleNextRun: this.timer = setTimeout(...). A timeout that is still
\* pending under the old handle stays pending, unreferenced.
CanSchedule == timer = "live" => orphanTimers < MaxOrphans

ScheduleNextRun ==
  /\ timer' = "live"
  /\ orphanTimers' = IF timer = "live" THEN orphanTimers + 1 ELSE orphanTimers

\* server.js start(): scheduler.start()
Start ==
  /\ ~started
  /\ started' = TRUE
  /\ CanSchedule
  /\ ScheduleNextRun
  /\ UNCHANGED <<syncState, currentRunId, loggerRunId, lastRun, lastResult,
                 errTimers, inflight, lastReturn>>
  /\ UNCHANGED othersSched

\* PUT /config, POST /config/restore: scheduler.restart() = stop(); start()
Restart ==
  /\ started
  \* stop(): clearTimeout(this.timer) cancels the handle's timeout if it is
  \* still pending (a no-op if it already fired) and sets this.timer = null;
  \* start(): scheduleNextRun sets a new handle.
  /\ timer' = "live"
  /\ UNCHANGED <<syncState, currentRunId, loggerRunId, lastRun, lastResult,
                 orphanTimers, errTimers, inflight, started, lastReturn>>
  /\ UNCHANGED othersSched

\* The guard at the head of runSync.
RunSyncRejectsMutant(st) == FALSE

RunSyncRejects(st) == st = "RUNNING"

\* runSync up to its first suspension point (await runOnce()).
RunSyncEnter(manual) ==
  IF RunSyncRejects(syncState)
  THEN /\ lastReturn' = "Sync already running"
       /\ UNCHANGED <<syncState, currentRunId, loggerRunId, inflight>>
  ELSE /\ Len(inflight) < MaxInflight
       /\ currentRunId' = "id"
       /\ syncState' = "RUNNING"
       /\ loggerRunId' = "id"
       /\ inflight' = Append(inflight, manual)
       /\ lastReturn' = "accepted"

\* A pending scheduled-run timeout fires: () => this.runSync()
TimerFire ==
  /\ PendingTimers > 0
  /\ \/ /\ timer = "live"
        /\ timer' = "stale"
        /\ UNCHANGED orphanTimers
     \/ /\ orphanTimers > 0
        /\ orphanTimers' = orphanTimers - 1
        /\ UNCHANGED timer
  /\ RunSyncEnter(FALSE)
  /\ UNCHANGED <<lastRun, lastResult, errTimers, started>>
  /\ UNCHANGED othersSched

\* POST /api/sync
ManualSync ==
  /\ started
  /\ IF syncState = "RUNNING"
     THEN /\ lastReturn' = "409"
          /\ UNCHANGED <<syncState, currentRunId, loggerRunId, inflight>>
     ELSE RunSyncEnter(TRUE)
  /\ UNCHANGED <<lastRun, lastResult, timer, orphanTimers, errTimers, started>>
  /\ UNCHANGED othersSched

\* The state a run ends in.
StateAfterKeepsRunning(success) == IF success THEN "IDLE" ELSE "RUNNING"

\* if (result.success) syncState = 'IDLE' else syncState = 'ERROR'
StateAfter(success) == IF success THEN "IDLE" ELSE "ERROR"

\* runOnce() resolved; runSync continues after the await, through finally.
RunOnceReturns ==
  /\ inflight # <<>>
  /\ \E i \in 1..Len(inflight), success \in BOOLEAN :
       LET manual == inflight[i]
           resched == ~manual \/ timer = "null"
       IN /\ inflight' = [j \in 1..(Len(inflight) - 1) |->
                            IF j < i THEN inflight[j] ELSE inflight[j + 1]]
          /\ lastRun' = "set"
          /\ lastResult' = IF success THEN "ok" ELSE "fail"
          /\ syncState' = StateAfter(success)
          /\ IF success
             THEN UNCHANGED errTimers
             ELSE /\ errTimers < MaxErrTimers
                  /\ errTimers' = errTimers + 1
          /\ IF resched
             THEN CanSchedule /\ ScheduleNextRun
             ELSE UNCHANGED <<timer, orphanTimers>>
          /\ currentRunId' = "null"
          /\ loggerRunId' = "null"
  /\ UNCHANGED <<started, lastReturn>>
  /\ UNCHANGED othersSched

\* setTimeout(() => { if (syncState === 'ERROR') syncState = 'IDLE' }, 5000)
ErrorResetFire ==
  /\ errTimers > 0
  /\ errTimers' = errTimers - 1
  /\ syncState' = IF syncState = "ERROR" THEN "IDLE" ELSE syncState
  /\ UNCHANGED <<currentRunId, loggerRunId, lastRun, lastResult, timer,
                 orphanTimers, inflight, started, lastReturn>>
  /\ UNCHANGED othersSched

SchedNext ==
  \/ Start
  \/ Restart
  \/ TimerFire
  \/ ManualSync
  \/ RunOnceReturns
  \/ ErrorResetFire

-----------------------------------------------------------------------------
(***************************************************************************)
(* Subnet / IP utilities (core/topology.js)                                *)
(***************************************************************************)

\* An IPv4 address is a sequence of octet values; a well-formed one has
\* four octets in 0..255.
ValidOctets(ip) == Len(ip) = 4 /\ \A i \in 1..4 : ip[i] \in 0..255

\* ipToSubnet: the /24 block of a well-formed address, else null.
NoSubnet == [net |-> <<>>, prefix |-> 0 - 1]

IpToSubnet(ip) ==
  IF ValidOctets(ip)
  THEN [net |-> <<ip[1], ip[2], ip[3], 0>>, prefix |-> 24]
  ELSE NoSubnet

\* ipToNumber: (((a << 8) + b) << 8 ...) >>> 0, or null (-1 here).
IpToNumber(ip) ==
  IF ValidOctets(ip)
  THEN ((ip[1] * 256 + ip[2]) * 256 + ip[3]) * 256 + ip[4]
  ELSE 0 - 1

\* ipInSubnet: mask = ~((1 << (32 - prefix)) - 1) >>> 0; JavaScript shifts
\* by the count modulo 32.
IpInSubnet(ip, subnet) ==
  LET ipNum == IpToNumber(ip)
      subnetNum == IpToNumber(subnet.net)
      shift == (32 - subnet.prefix) % 32
  IN IF ipNum < 0 \/ subnetNum < 0
     THEN FALSE
     ELSE (ipNum \div (2 ^ shift)) = (subnetNum \div (2 ^ shift))

-----------------------------------------------------------------------------
(***************************************************************************)
(* Topology resolver: queryTXT with retries, getHostSubnetMapping          *)
(***************************************************************************)

MAX_RETRIES == 3

\* Bound: entries in a TXT payload.
MaxTxtEntries == 2

\* Sample addresses: two hosts in different /24 blocks and a malformed one.
IpAlpha == <<10, 0, 4, 5>>
IpBeta == <<10, 0, 5, 9>>
IpBad == <<10, 0, 300, 1>>

\* One comma-separated entry of the payload: sep says whether it has a ':'.
TxtEntries ==
  { [host |-> "alpha", ip |-> IpAlpha, sep |-> TRUE],
    [host |-> "beta", ip |-> IpBeta, sep |-> TRUE],
    [host |-> "beta", ip |-> IpBad, sep |-> TRUE],
    [host |-> "alpha", ip |-> IpAlpha, sep |-> FALSE] }

TxtPayloads == UNION { [1..n -> TxtEntries] : n \in 0..MaxTxtEntries }

\* mapping[cnamePrefix] = subnet on an insertion-ordered object: a key that
\* is already present keeps its position and takes the new value.
MapSet(m, k, v) ==
  IF \E i \in 1..Len(m) : m[i].key = k
  THEN [i \in 1..Len(m) |-> IF m[i].key = k THEN [key |-> k, val |-> v] ELSE m[i]]
  ELSE Append(m, [key |-> k, val |-> v])

\* The parsing loop of getHostSubnetMapping over the entries of the payload.
RECURSIVE ParseTopology(_, _)
ParseTopology(entries, mapping) ==
  IF entries = <<>> THEN mapping
  ELSE LET e == Head(entries)
           subnet == IpToSubnet(e.ip)
       IN IF ~e.sep \/ subnet = NoSubnet
          THEN ParseTopology(Tail(entries), mapping)
          ELSE ParseTopology(Tail(entries),
                             MapSet(mapping, <<"on", e.host>>, subnet))

\* Attempts queryTXT makes before it gives up.
AttemptLimitMutant == IF dnsModule = "retry" THEN MAX_RETRIES + 1 ELSE 1

AttemptLimit == IF dnsModule = "retry" THEN MAX_RETRIES ELSE 1

\* if (attempt < MAX_RETRIES) await sleep(RETRY_DELAY_MS)
SleepsAfter(attempt) == attempt < AttemptLimit

\* catch (error) { logger.error(...); return {}; } in getHostSubnetMapping
OnQueryError == [mapping |-> <<>>, logged |-> TRUE, raised |-> FALSE]

TxtIdle ==
  /\ txtPc = "idle"
  /\ txtAttempt = 0
  /\ txtLog = <<>>
  /\ txtMapping = <<>>
  /\ txtErrLogged = FALSE
  /\ txtRaised = FALSE

TxtInit ==
  /\ dnsModule \in {"retry", "single"}
  /\ txtPayload \in TxtPayloads
  /\ TxtIdle

\* getHostSubnetMapping called: queryTXT starts its first attempt.
TxtCall ==
  /\ txtPc = "idle"
  /\ txtPc' = "attempt"
  /\ txtAttempt' = 1
  /\ UNCHANGED <<dnsModule, txtPayload, txtLog, txtMapping, txtErrLogged, txtRaised>>
  /\ UNCHANGED othersTxt

\* queryTXTOnce resolved: queryTXT returns, the payload is parsed.
TxtAttemptOk ==
  /\ txtPc = "attempt"
  /\ txtLog' = Append(txtLog, "ok")
  /\ txtMapping' = ParseTopology(txtPayload, <<>>)
  /\ txtPc' = "done"
  /\ UNCHANGED <<dnsModule, txtPayload, txtAttempt, txtErrLogged, txtRaised>>
  /\ UNCHANGED othersTxt

\* queryTXTOnce rejected (timeout, socket error, undecodable answer).
TxtAttemptFail ==
  /\ txtPc = "attempt"
  /\ txtLog' = Append(txtLog, "fail")
  /\ IF SleepsAfter(txtAttempt)
     THEN /\ txtPc' = "sleep"
          /\ UNCHANGED <<txtAttempt, txtMapping, txtErrLogged, txtRaised>>
     ELSE IF txtAttempt + 1 <= AttemptLimit
     THEN /\ txtPc' = "attempt"
          /\ txtAttempt' = txtAttempt + 1
          /\ UNCHANGED <<txtMapping, txtErrLogged, txtRaised>>
     ELSE \* throw lastError
          /\ txtPc' = "done"
          /\ txtMapping' = OnQueryError.mapping
          /\ txtErrLogged' = OnQueryError.logged
          /\ txtRaised' = OnQueryError.raised
          /\ UNCHANGED txtAttempt
  /\ UNCHANGED <<dnsModule, txtPayload>>
  /\ UNCHANGED othersTxt

\* sleep(RETRY_DELAY_MS) elapsed: next iteration of the loop. If the loop
\* condition fails after a sleep, lastError is thrown and caught.
TxtWake ==
  /\ txtPc = "sleep"
  /\ txtLog' = Append(txtLog, "sleep")
  /\ IF txtAttempt + 1 <= AttemptLimit
     THEN /\ txtPc' = "attempt"
          /\ txtAttempt' = txtAttempt + 1
          /\ UNCHANGED <<txtMapping, txtErrLogged, txtRaised>>
     ELSE /\ txtPc' = "done"
          /\ txtMapping' = OnQueryError.mapping
          /\ txtErrLogged' = OnQueryError.logged
          /\ txtRaised' = OnQueryError.raised
          /\ UNCHANGED txtAttempt
  /\ UNCHANGED <<dnsModule, txtPayload>>
  /\ UNCHANGED othersTxt

TxtNext ==
  \/ TxtCall
  \/ TxtAttemptOk
  \/ TxtAttemptFail
  \/ TxtWake

-----------------------------------------------------------------------------
(***************************************************************************)
(* Monitoring generator: detectProtocolAndPort                             *)
(***************************************************************************)

\* GatusConfigGenerator.CHECK_ORDER
CheckOrderSwapped == <<443, 8006, 8080, 21, 8443, 80, 587, 465, 993, 123, 53>>

CHECK_ORDER == <<8443, 8006, 8080, 21, 443, 80, 587, 465, 993, 123, 53>>

\* GatusConfigGenerator.PORT_PROTOCOLS[port] || 'tcp'
PortProtocol(port) ==
  CASE port \in {8443, 8006, 443} -> "https"
    [] port \in {8080, 80} -> "http"
    [] port = 587 -> "starttls"
    [] port \in {465, 993} -> "tls"
    [] port = 123 -> "udp"
    [] port = 53 -> "dns"
    [] port = 21 -> "tcp"
    [] OTHER -> "tcp"

\* undefined
NoPort == 0 - 1

\* Sample inputs: overrides (one of them not in the table), open ports.
DetOverrides == {NoPort, 80, 8443, 2222}
DetOpenPorts == {8443, 443, 80, 53}
DetSubdomains == {"", "app"}

\* if (subdomain && this.portOverrides[subdomain] !== undefined)
HasOverrideMutant(subdomain, override) == FALSE

HasOverride(subdomain, override) == subdomain # "" /\ override # NoPort

NoResult == [protocol |-> "none", port |-> NoPort]

\* "Fallback to ICMP"
FallbackLastProtocol == [protocol |-> "dns", port |-> 53]

Fallback == [protocol |-> "icmp", port |-> 0]

DetIdle ==
  /\ detPc = "idle"
  /\ detIdx = 0
  /\ detProbes = <<>>
  /\ detResult = NoResult

DetInit ==
  /\ detOverride \in DetOverrides
  /\ detSubdomain \in DetSubdomains
  /\ detOpen \in SUBSET DetOpenPorts
  /\ DetIdle

\* detectProtocolAndPort(target, subdomain) up to its first await.
DetCall ==
  /\ detPc = "idle"
  /\ IF HasOverride(detSubdomain, detOverride)
     THEN /\ detResult' = [protocol |-> PortProtocol(detOverride), port |-> detOverride]
          /\ detPc' = "done"
          /\ UNCHANGED detIdx
     ELSE /\ detPc' = "probing"
          /\ detIdx' = 1
          /\ UNCHANGED detResult
  /\ UNCHANGED <<detOverride, detSubdomain, detOpen, detProbes>>
  /\ UNCHANGED othersDet

\* checkPort(target, CHECK_ORDER[i]) resolved true or false.
DetProbe ==
  /\ detPc = "probing"
  /\ LET port == CHECK_ORDER[detIdx]
     IN /\ detProbes' = Append(detProbes, port)
        /\ IF port \in detOpen
           THEN /\ detResult' = [protocol |-> PortProtocol(port), port |-> port]
                /\ detPc' = "done"
                /\ UNCHANGED detIdx
           ELSE IF detIdx < Len(CHECK_ORDER)
           THEN /\ detIdx' = detIdx + 1
                /\ UNCHANGED <<detPc, detResult>>
           ELSE /\ detResult' = Fallback
                /\ detPc' = "done"
                /\ UNCHANGED detIdx
  /\ UNCHANGED <<detOverride, detSubdomain, detOpen>>
  /\ UNCHANGED othersDet

DetNext ==
  \/ DetCall
  \/ DetProbe

-----------------------------------------------------------------------------
(***************************************************************************)
(* Strings.  A host name or record name is the sequence of its             *)
(* dot-separated labels ("app.d" is <<"app", "d">>); a record value also   *)
(* carries the number of dots at its end.                                  *)
(***************************************************************************)

\* s.includes(t) for a non-empty t made of whole labels.
Includes(s, t) ==
  \E i \in 1..(Len(s) - Len(t) + 1) : SubSeq(s, i, i + Len(t) - 1) = t

\* s.endsWith(t)
EndsWith(s, t) ==
  Len(s) >= Len(t) /\ SubSeq(s, Len(s) - Len(t) + 1, Len(s)) = t

\* s.replace(`.${t}`, ''): drops the first occurrence of t that follows a dot.
RemoveDotted(s, t) ==
  LET hits == { i \in 2..(Len(s) - Len(t) + 1) : SubSeq(s, i, i + Len(t) - 1) = t }
  IN IF hits = {} THEN s
     ELSE LET i == CHOOSE k \in hits : \A j \in hits : k <= j
          IN SubSeq(s, 1, i - 1) \o SubSeq(s, i + Len(t), Len(s))

Val(labels, dots) == [labels |-> labels, dots |-> dots]

\* value.replace(/\.$/, ''): removes one dot at the end, if there is one.
StripDotMutant(v) == v

StripDot(v) == [v EXCEPT !.dots = IF v.dots > 0 THEN v.dots - 1 ELSE 0]

\* createRecord / updateRecord: if (!value.endsWith('.')) finalValue = `${value}.`
FinalValueAsGiven(v) == v

FinalValue(v) == IF v.dots = 0 THEN [v EXCEPT !.dots = 1] ELSE v

\* value.startsWith('on.') || value.includes('.on.'), on a stripped value.
IsManagedValue(v) ==
  \/ Len(v.labels) >= 1 /\ v.labels[1] = "on" /\ (Len(v.labels) >= 2 \/ v.dots >= 1)
  \/ \E i \in 2..Len(v.labels) :
       v.labels[i] = "on" /\ (i < Len(v.labels) \/ v.dots >= 1)

\* Insertion-ordered Map / object helpers.
MapHas(m, k) == \E i \in 1..Len(m) : m[i].key = k

MapGet(m, k) == m[CHOOSE i \in 1..Len(m) : m[i].key = k].val

MapKeys(m) == { m[i].key : i \in 1..Len(m) }

-----------------------------------------------------------------------------
(***************************************************************************)
(* Sample configuration and inputs of a cycle                              *)
(***************************************************************************)

\* config.domain
Domain == <<"d">>

\* Bounds of the cycle model.
MaxCycles == 2
MaxFailures == 1

\* Topology as the TXT record describes it.
TopologyPayload ==
  << [host |-> "alpha", ip |-> IpAlpha, sep |-> TRUE],
     [host |-> "beta", ip |-> IpBeta, sep |-> TRUE] >>

\* Resources of the directory: name, domain field, first enabled target.
ResAlphaA == [name |-> <<"r1">>, domain |-> <<"a">>, ip |-> <<10, 0, 4, 17>>, port |-> 443]
ResBetaA == [name |-> <<"r2">>, domain |-> <<"a", "d">>, ip |-> <<10, 0, 5, 1>>, port |-> 80]
ResBetaC == [name |-> <<"r3">>, domain |-> <<"c">>, ip |-> <<10, 0, 5, 2>>, port |-> 8006]
ResRoot == [name |-> <<"r4">>, domain |-> <<"d">>, ip |-> <<10, 0, 4, 18>>, port |-> 22]
ResNoNet == [name |-> <<"r5">>, domain |-> <<"c">>, ip |-> <<10, 0, 7, 7>>, port |-> 443]

\* Resource lists the directory may answer with (the same in every cycle).
ResourceLists ==
  { <<>>,
    <<ResAlphaA>>,
    <<ResAlphaA, ResBetaA>>,
    <<ResBetaA, ResBetaC>>,
    <<ResNoNet, ResRoot>> }

OnAlpha == Val(<<"on", "alpha", "d">>, 1)
OnBetaNoDot == Val(<<"on", "beta", "d">>, 0)
OnBeta == Val(<<"on", "beta", "d">>, 1)
ViaOnAlpha == Val(<<"via", "on", "alpha", "d">>, 1)
External == Val(<<"ext", "net">>, 1)
NoValue == Val(<<>>, 0)

\* CNAME values the zone may hold under each name at the start.
ZoneCnameChoices ==
  [a |-> {NoValue, OnAlpha, OnBetaNoDot, External},
   b |-> {ViaOnAlpha, External},
   c |-> {NoValue, OnBeta}]

\* A records of the zone (never managed): the topology host and a mail host.
ZoneARecords ==
  { [name |-> <<"on", "alpha">>, type |-> "A", value |-> Val(<<"10-0-4-5">>, 0)],
    [name |-> <<"m">>, type |-> "A", value |-> Val(<<"10-0-9-9">>, 0)] }

CnameRecord(name, value) == [name |-> name, type |-> "CNAME", value |-> value]

InitialZones ==
  { ZoneARecords \cup
      { r \in { CnameRecord(<<"a">>, va), CnameRecord(<<"b">>, vb), CnameRecord(<<"c">>, vc) } :
          r.value # NoValue } :
    va \in ZoneCnameChoices.a, vb \in ZoneCnameChoices.b, vc \in ZoneCnameChoices.c }

\* The order in which the zone API lists record sets.
ZoneNameOrder == << <<"@">>, <<"a">>, <<"b">>, <<"c">>, <<"m">>, <<"on", "alpha">> >>

KeepChoices == SUBSET { <<"b">> }
IgnoreChoices == SUBSET { <<"c">> }

\* Ignore lists naming the root domain: '@', the empty string, the base domain.
RootIgnoreChoices == { { <<"@">> }, { <<>> }, { Domain } }

\* The ignore lists tried with a resource directory: the root aliases are
\* tried with the directory that holds the root resource.
IgnoreChoicesFor(resources) ==
  IgnoreChoices \cup
    (IF \E i \in 1..Len(resources) : resources[i] = ResRoot THEN RootIgnoreChoices ELSE {})

-----------------------------------------------------------------------------
(***************************************************************************)
(* Desired-state builder (sync.js getPangolinDomainCnamePairs)             *)
(***************************************************************************)

\* getCnameForIp: the first mapping entry whose subnet contains the address.
NoCname == <<>>

GetCnameForIp(ip, mapping) ==
  LET hits == { i \in 1..Len(mapping) : IpInSubnet(ip, mapping[i].val) }
  IN IF hits = {} THEN NoCname
     ELSE mapping[CHOOSE i \in hits : \A j \in hits : i <= j].key

\* Protocol of a pair: target method, resource protocol, then port heuristic.
ResolveProtocol(method, resProto, port) ==
  IF method \in {"http", "https"} THEN method
  ELSE IF resProto \in {"http", "https"} THEN resProto
  ELSE IF port = 443 \/ port = 8006 THEN "https"
  ELSE IF port = 80 THEN "http"
  ELSE "tcp"

\* The body of the loop over the resources, for one resource: the pairs
\* list with the resource's pair pushed, or unchanged if it is skipped.
PushPair(pairs, resource, mapping) ==
  LET domain == IF EndsWith(resource.domain, Domain)
                THEN resource.domain
                ELSE resource.domain \o Domain
      cname == GetCnameForIp(resource.ip, mapping)
      subdomain == RemoveDotted(domain, Domain)
  IN IF resource.domain = <<>> \/ resource.ip = <<>> \/ cname = NoCname
     THEN pairs
     ELSE Append(pairs,
            [name |-> resource.name,
             domain |-> domain,
             subdomain |-> subdomain,
             cname |-> cname,
             cname_full |-> Val(cname \o Domain, 0),
             is_root |-> (subdomain = Domain \/ subdomain = <<>>),
             target |-> resource.ip,
             port |-> resource.port,
             protocol |-> ResolveProtocol("", "", resource.port)])

RECURSIVE BuildPairsFrom(_, _, _)
BuildPairsFrom(resources, mapping, pairs) ==
  IF resources = <<>> THEN pairs
  ELSE BuildPairsFrom(Tail(resources), mapping, PushPair(pairs, Head(resources), mapping))

\* getPangolinDomainCnamePairs: no pairs at all without a topology mapping.
BuildPairs(resources, mapping) ==
  IF mapping = <<>> THEN <<>> ELSE BuildPairsFrom(resources, mapping, <<>>)

-----------------------------------------------------------------------------
(***************************************************************************)
(* Zone client (hetzner.js) against the zone held by the API               *)
(***************************************************************************)

RRSet(zone, name, type) == { r \in zone : r.name = name /\ r.type = type }

\* listRecords: one flat record per value, record sets in the API's order.
RecordId(name, type) == <<name, type>>

RECURSIVE ListFrom(_, _)
ListFrom(zone, names) ==
  IF names = <<>> THEN <<>>
  ELSE LET n == Head(names)
           flat(type) ==
             IF RRSet(zone, n, type) = {} THEN <<>>
             ELSE LET r == CHOOSE x \in RRSet(zone, n, type) : TRUE
                  IN << [id |-> RecordId(n, type), name |-> n, type |-> type,
                         value |-> r.value] >>
       IN flat("A") \o flat("CNAME") \o ListFrom(zone, Tail(names))

ListRecords(zone) == ListFrom(zone, ZoneNameOrder)

\* POST /zones/{id}/rrsets: the API creates a record set that does not exist yet.
CreateAccepted(zone, name, type) == RRSet(zone, name, type) = {}

ZoneAfterCreate(zone, name, type, value) ==
  zone \cup { [name |-> name, type |-> type, value |-> FinalValue(value)] }

\* POST .../actions/set_records: replaces the values of an existing record set.
UpdateAccepted(zone, name, type) == RRSet(zone, name, type) # {}

ZoneAfterUpdate(zone, name, type, value) ==
  (zone \ RRSet(zone, name, type))
    \cup { [name |-> name, type |-> type, value |-> FinalValue(value)] }

\* DELETE /zones/{id}/rrsets/{name}/{type}, name and type taken from the id.
DeleteAccepted(zone, id) == RRSet(zone, id[1], id[2]) # {}

ZoneAfterDelete(zone, id) == zone \ RRSet(zone, id[1], id[2])

-----------------------------------------------------------------------------
(***************************************************************************)
(* Zone reconciler (sync.js syncHetznerDns)                                *)
(***************************************************************************)

\* Lookup of the current CNAME records pointing to on.*, keyed by name.
RECURSIVE CurrentCnamesFrom(_, _)
CurrentCnamesFrom(records, m) ==
  IF records = <<>> THEN m
  ELSE LET r == Head(records)
           value == StripDot(r.value)
       IN IF r.type = "CNAME" /\ IsManagedValue(value)
          THEN CurrentCnamesFrom(Tail(records),
                                 MapSet(m, r.name, [value |-> value, id |-> r.id]))
          ELSE CurrentCnamesFrom(Tail(records), m)

CurrentCnames(records) == CurrentCnamesFrom(records, <<>>)

\* The ignore-list test applied to a pair.
PairIgnoredBySubdomain(pair, ignore) == pair.subdomain \in ignore

PairIgnored(pair, ignore) ==
  \/ pair.subdomain \in ignore
  \/ pair.is_root /\ (<<"@">> \in ignore \/ <<>> \in ignore \/ Domain \in ignore)

\* expectedCnames.set(recordName, cnameTarget)
RECURSIVE ExpectedCnamesFirstWins(_, _, _)
ExpectedCnamesFirstWins(pairs, ignore, m) ==
  IF pairs = <<>> THEN m
  ELSE LET pair == Head(pairs)
           recordName == IF pair.is_root THEN <<"@">> ELSE pair.subdomain
       IN IF PairIgnored(pair, ignore) \/ MapHas(m, recordName)
          THEN ExpectedCnamesFirstWins(Tail(pairs), ignore, m)
          ELSE ExpectedCnamesFirstWins(Tail(pairs), ignore,
                                       MapSet(m, recordName, pair.cname_full))

\* The ignore list is not consulted: every pair is expected.
RECURSIVE ExpectedCnamesWithIgnored(_, _, _)
ExpectedCnamesWithIgnored(pairs, ignore, m) ==
  IF pairs = <<>> THEN m
  ELSE LET pair == Head(pairs)
           recordName == IF pair.is_root THEN <<"@">> ELSE pair.subdomain
       IN ExpectedCnamesWithIgnored(Tail(pairs), ignore,
                                    MapSet(m, recordName, pair.cname_full))

\* Expected records: recordName -> cname_full, a later pair overriding an
\* earlier one of the same name.
RECURSIVE ExpectedCnamesFrom(_, _, _)
ExpectedCnamesFrom(pairs, ignore, m) ==
  IF pairs = <<>> THEN m
  ELSE LET pair == Head(pairs)
           recordName == IF pair.is_root THEN <<"@">> ELSE pair.subdomain
       IN IF PairIgnored(pair, ignore)
          THEN ExpectedCnamesFrom(Tail(pairs), ignore, m)
          ELSE ExpectedCnamesFrom(Tail(pairs), ignore,
                                  MapSet(m, recordName, pair.cname_full))

ExpectedCnames(pairs, ignore) == ExpectedCnamesFrom(pairs, ignore, <<>>)

\* "Delete orphaned records": is a delete call issued for this current entry?
DeletesEntryMutant(name, expected, keep) == ~MapHas(expected, name)

DeletesEntry(name, expected, keep) == ~MapHas(expected, name) /\ name \notin keep

DeleteCalls(current, expected, keep) ==
  LET idx == { i \in 1..Len(current) : DeletesEntry(current[i].key, expected, keep) }
      call(i) == [op |-> "delete", name |-> current[i].key, id |-> current[i].val.id,
                  value |-> current[i].val.value]
      RECURSIVE build(_)
      build(i) == IF i > Len(current) THEN <<>>
                  ELSE (IF i \in idx THEN <<call(i)>> ELSE <<>>) \o build(i + 1)
  IN build(1)

\* "Update or create records": the call issued for one expected entry.
UpsertOpMutant(current, name, target) ==
  IF MapHas(current, name) THEN "update" ELSE "create"

UpsertOpNoUpdate(current, name, target) ==
  IF MapHas(current, name) THEN "none" ELSE "create"

UpsertOp(current, name, target) ==
  IF MapHas(current, name)
  THEN IF MapGet(current, name).value # StripDot(target) THEN "update" ELSE "none"
  ELSE "create"

UpsertCalls(current, expected) ==
  LET RECURSIVE build(_)
      build(i) ==
        IF i > Len(expected) THEN <<>>
        ELSE LET name == expected[i].key
                 target == expected[i].val
                 op == UpsertOp(current, name, target)
                 id == IF MapHas(current, name) THEN MapGet(current, name).id
                       ELSE RecordId(name, "CNAME")
             IN (IF op = "none" THEN <<>>
                 ELSE << [op |-> op, name |-> name, id |-> id, value |-> target] >>)
                \o build(i + 1)
  IN build(1)

\* The API calls of one reconcile in program order: the delete loop runs to
\* its end before the update/create loop starts.
PlanCallsMutant(current, expected, keep) ==
  UpsertCalls(current, expected) \o DeleteCalls(current, expected, keep)

PlanCalls(current, expected, keep) ==
  DeleteCalls(current, expected, keep) \o UpsertCalls(current, expected)

-----------------------------------------------------------------------------
(***************************************************************************)
(* Monitoring generator (gatus.js) and sync.js generateGatusConfig         *)
(***************************************************************************)

\* Sample generator configuration.
SkipTechnicalCnames == cfgSkipTechnical
AggressiveHostFiltering == cfgAggressive
NameOverrides == << [key |-> <<"m">>, val |-> <<"Mail">>] >>
PortOverrides == << [key |-> <<"b">>, val |-> 80] >>

\* Ports that accept a connection on a probed target.
OpenPortsOf(target) == IF target = External.labels THEN {} ELSE {8443, 443}

\* updateHostMapping: subnetToHostname and hostnames from the topology mapping.
RECURSIVE HostStateFrom(_, _)
HostStateFrom(mapping, st) ==
  IF mapping = <<>> THEN st
  ELSE LET cname == Head(mapping).key
           hostname == IF Len(cname) >= 1 /\ cname[1] = "on" THEN Tail(cname) ELSE cname
       IN HostStateFrom(Tail(mapping),
            [subnetToHostname |-> MapSet(st.subnetToHostname, Head(mapping).val, hostname),
             hostnames |-> IF \E i \in 1..Len(st.hostnames) : st.hostnames[i] = hostname
                           THEN st.hostnames
                           ELSE Append(st.hostnames, hostname)])

NoHostState == [subnetToHostname |-> <<>>, hostnames |-> <<>>]

UpdateHostMapping(mapping) == HostStateFrom(mapping, NoHostState)

\* First element of a sequence satisfying a test, as an index (0 if none).
FirstIndex(seq, Test(_)) ==
  IF \E i \in 1..Len(seq) : Test(seq[i])
  THEN CHOOSE i \in 1..Len(seq) : Test(seq[i]) /\ \A j \in 1..(i - 1) : ~Test(seq[j])
  ELSE 0

\* getGroupForTarget
GetGroupForTarget(st, targetIp, domain) ==
  LET InNet(e) == IpInSubnet(targetIp, e.key)
      InDomain(h) == Includes(domain, h)
      i == FirstIndex(st.subnetToHostname, InNet)
      j == FirstIndex(st.hostnames, InDomain)
  IN IF i # 0 THEN st.subnetToHostname[i].val
     ELSE IF j # 0 THEN st.hostnames[j]
     ELSE <<"other">>

\* shouldSkipEndpoint
ShouldSkipNoIgnoreList(st, name, ignore) ==
  \/ /\ SkipTechnicalCnames
     /\ \E i \in 1..Len(st.hostnames) :
          \/ Includes(name, <<"on">> \o st.hostnames[i])
          \/ Includes(name, <<"via">> \o st.hostnames[i])
  \/ /\ AggressiveHostFiltering
     /\ \E i \in 1..Len(st.hostnames) : Includes(name, st.hostnames[i])

ShouldSkipEndpoint(st, name, ignore) ==
  \/ \E ignored \in ignore : ignored = name \/ (ignored # <<>> /\ Includes(name, ignored))
  \/ /\ SkipTechnicalCnames
     /\ \E i \in 1..Len(st.hostnames) :
          \/ Includes(name, <<"on">> \o st.hostnames[i])
          \/ Includes(name, <<"via">> \o st.hostnames[i])
  \/ /\ AggressiveHostFiltering
     /\ \E i \in 1..Len(st.hostnames) : Includes(name, st.hostnames[i])

\* detectProtocolAndPort as a function of what the probes would answer.
DetectProtocolAndPort(open, subdomain, override) ==
  LET IsOpen(port) == port \in open
      i == FirstIndex(CHECK_ORDER, IsOpen)
  IN IF HasOverride(subdomain, override)
     THEN [protocol |-> PortProtocol(override), port |-> override]
     ELSE IF i # 0
     THEN [protocol |-> PortProtocol(CHECK_ORDER[i]), port |-> CHECK_ORDER[i]]
     ELSE [protocol |-> "icmp", port |-> 0]

\* gatus_defaults.client of the sample configuration sets a timeout and no
\* 'insecure' key.
DefaultsClientInsecure == FALSE

\* generateEndpoint: name, url, group, conditions, client.insecure.
GenerateEndpoint(name, host, port, protocol, group, useInsecureTls) ==
  [name |-> name,
   scheme |-> protocol,
   host |-> host,
   port |-> IF protocol \in {"icmp", "dns"} THEN NoPort ELSE port,
   group |-> group,
   conditions |-> IF protocol \in {"http", "https"} THEN "status" ELSE "connected",
   insecure |-> DefaultsClientInsecure \/ useInsecureTls]

\* sync.js generateGatusConfig: the zone records handed to the generator.
HetznerEntries(pairs, records, keep) ==
  LET pangolinSubdomains == { pairs[i].subdomain : i \in 1..Len(pairs) }
      Passes(r) ==
        /\ r.type \in {"A", "CNAME"}
        /\ r.name \notin pangolinSubdomains
        /\ ~(Len(r.name) >= 2 /\ r.name[1] = "on" /\ r.name \notin keep)
      Entry(r) == [name |-> r.name, type |-> r.type, value |-> StripDot(r.value)]
      RECURSIVE build(_)
      build(i) == IF i > Len(records) THEN <<>>
                  ELSE (IF Passes(records[i]) THEN <<Entry(records[i])>> ELSE <<>>)
                       \o build(i + 1)
  IN build(1)

\* The endpoints of a list of generated entries.
EndpointsOf(generated) == [i \in 1..Len(generated) |-> generated[i].endpoint]

\* generateConfig, first loop: the endpoint of each resource entry that is
\* not skipped, with the entry's name and domain.
PangolinGenerated(st, pairs, ignore) ==
  LET RECURSIVE build(_)
      build(i) ==
        IF i > Len(pairs) THEN <<>>
        ELSE LET e == pairs[i]
                 skip == \/ ShouldSkipEndpoint(st, e.name, ignore)
                         \/ ShouldSkipEndpoint(st, e.domain, ignore)
                         \/ e.target = <<>>
             IN (IF skip THEN <<>>
                 ELSE << [endpoint |->
                            GenerateEndpoint(e.name, [ip |-> e.target, name |-> <<>>],
                              e.port, e.protocol,
                              GetGroupForTarget(st, e.target, e.domain),
                              e.protocol = "https"),
                          name |-> e.name, domain |-> e.domain] >>)
                \o build(i + 1)
  IN build(1)

\* generateConfig, first loop: endpoints of the resource entries.
PangolinEndpoints(st, pairs, ignore) == EndpointsOf(PangolinGenerated(st, pairs, ignore))

\* generateConfig, second loop: the endpoint of each remaining zone record
\* that is not skipped, with the record's name and full domain.
HetznerGenerated(st, pairs, entries, keep, ignore) ==
  LET pangolinSubdomains ==
        { RemoveDotted(pairs[i].domain, Domain) : i \in 1..Len(pairs) }
          \cup { pairs[i].domain : i \in 1..Len(pairs) }
      RECURSIVE build(_)
      build(i) ==
        IF i > Len(entries) THEN <<>>
        ELSE LET e == entries[i]
                 isKept == e.name \in keep
                 fullDomain == IF e.name = <<"@">> THEN Domain ELSE e.name \o Domain
                 OnPrefix(x, dots) ==
                   Len(x) >= 1 /\ x[1] = "on" /\ (Len(x) >= 2 \/ dots >= 1)
                 skip ==
                   \/ ~isKept /\ (OnPrefix(e.name, 0) \/ OnPrefix(e.value.labels, e.value.dots))
                   \/ e.name \in pangolinSubdomains /\ ~isKept
                   \/ fullDomain \in pangolinSubdomains
                   \/ e.type \notin {"A", "CNAME"}
                   \/ ShouldSkipEndpoint(st, e.name, ignore)
                   \/ ShouldSkipEndpoint(st, fullDomain, ignore)
                 subdomain == IF e.name # <<"@">> THEN e.name ELSE <<>>
                 displayName == IF MapHas(NameOverrides, subdomain)
                                THEN MapGet(NameOverrides, subdomain) ELSE fullDomain
                 targetVal == StripDot(e.value).labels
                 detectTarget == IF e.type = "CNAME" THEN targetVal ELSE fullDomain
                 override == IF MapHas(PortOverrides, e.name)
                             THEN MapGet(PortOverrides, e.name) ELSE NoPort
                 det == DetectProtocolAndPort(OpenPortsOf(detectTarget),
                          IF e.name = <<>> THEN "" ELSE "set", override)
                 ViaTarget(h) == Includes(targetVal, <<"on">> \o h)
                 InDomain(h) == Includes(fullDomain, h)
                 g1 == FirstIndex(st.hostnames, ViaTarget)
                 g2 == FirstIndex(st.hostnames, InDomain)
                 group == IF g1 # 0 THEN st.hostnames[g1]
                          ELSE IF g2 # 0 THEN st.hostnames[g2]
                          ELSE <<"other">>
             IN (IF skip THEN <<>>
                 ELSE << [endpoint |->
                            GenerateEndpoint(displayName, [ip |-> <<>>, name |-> fullDomain],
                              det.port, det.protocol, group, FALSE),
                          name |-> e.name, domain |-> fullDomain] >>)
                \o build(i + 1)
  IN build(1)

\* generateConfig, second loop: endpoints of the remaining zone records.
HetznerEndpoints(st, pairs, entries, keep, ignore) ==
  EndpointsOf(HetznerGenerated(st, pairs, entries, keep, ignore))

\* sync.js generateGatusConfig followed by gatus.js generateConfig.
GenerateGatusConfig(st, pairs, records, keep, ignore) ==
  [endpoints |-> PangolinEndpoints(st, pairs, ignore)
                   \o HetznerEndpoints(st, pairs, HetznerEntries(pairs, records, keep),
                                       keep, ignore)]

\* yaml.dump(config): the text of the file, one block per endpoint.
Dump(config) == [exists |-> TRUE, text |-> config.endpoints]

MissingFile == [exists |-> FALSE, text |-> <<>>]

-----------------------------------------------------------------------------
(***************************************************************************)
(* Sync orchestrator (sync.js runOnce): one action per suspension point    *)
(***************************************************************************)

\* Zone ids: none asked for yet in the run, the null of a failed lookup, the
\* id the API lookup finds, and the values of the zone_id setting.
NotAsked == "none"
NoZoneId == "null"
LookedUpZoneId == "z1"
ConfiguredZoneIds == {"", "z9"}

\* The zone_id settings tried with a directory and the two lists.
ZoneIdChoicesFor(resources, keep, ignore) ==
  IF resources = <<ResAlphaA>> /\ keep = {} /\ ignore = {} THEN ConfiguredZoneIds ELSE {""}

NoResultYet == [success |-> FALSE, errors |-> <<>>, raised |-> FALSE, returned |-> FALSE,
                pangolinMappings |-> 0, dnsRecords |-> 0, gatusEndpoints |-> 0]

\* Values of the per-run variables when runOnce is entered.
RunReset ==
  /\ hostMapping' = <<>>
  /\ pangolinPairs' = <<>>
  /\ currentCnames' = <<>>
  /\ expectedCnames' = <<>>
  /\ reconciled' = FALSE
  /\ work' = <<>>
  /\ calls' = <<>>
  /\ hetznerRecords' = <<>>
  /\ newContent' = MissingFile
  /\ fileBefore' = file
  /\ wrote' = FALSE
  /\ renamed' = FALSE
  /\ ioFailed' = FALSE
  /\ threw' = FALSE
  /\ zoneId' = NotAsked
  /\ steps' = <<>>
  /\ runFailed' = FALSE
  /\ result' = NoResultYet
  /\ dirCalls' = <<>>

CycIdle ==
  /\ cycPc = "idle"
  /\ cycleNo = 0
  /\ failures = 0
  /\ runFailed = FALSE
  /\ prevFailed = FALSE
  /\ hostMapping = <<>>
  /\ genState = NoHostState
  /\ pangolinPairs = <<>>
  /\ currentCnames = <<>>
  /\ expectedCnames = <<>>
  /\ reconciled = FALSE
  /\ work = <<>>
  /\ calls = <<>>
  /\ hetznerRecords = <<>>
  /\ newContent = MissingFile
  /\ fileBefore = file
  /\ wrote = FALSE
  /\ renamed = FALSE
  /\ ioFailed = FALSE
  /\ prevMutations = 0
  /\ threw = FALSE
  /\ zoneId = NotAsked
  /\ steps = <<>>
  /\ result = NoResultYet
  /\ dirCalls = <<>>

CycInit ==
  /\ dnsZone \in InitialZones
  /\ directory \in ResourceLists
  /\ keepSubdomains \in KeepChoices
  /\ ignoreSubdomains \in IgnoreChoicesFor(directory)
  /\ hetznerZoneId \in ZoneIdChoicesFor(directory, keepSubdomains, ignoreSubdomains)
  /\ file \in {MissingFile, Dump([endpoints |-> <<>>])}
  /\ CycIdle

\* An outcome of a network or file operation: a failure is drawn from the
\* failure budget.
Outcome(ok) ==
  /\ ~ok => failures < MaxFailures
  /\ failures' = IF ok THEN failures ELSE failures + 1

Logged(op, name, value, ok) == [op |-> op, name |-> name, value |-> value, ok |-> ok]

envVars == <<directory, keepSubdomains, ignoreSubdomains, hetznerZoneId>>

IsMutation(call) == call.op \in {"delete", "update", "create"}

Mutations(log) == { i \in 1..Len(log) : IsMutation(log[i]) }

\* runOnce() is called (by the scheduler or a manual trigger).
RunOnce ==
  /\ cycPc \in {"idle", "done"}
  /\ cycleNo < MaxCycles
  /\ cycleNo' = cycleNo + 1
  /\ cycPc' = "topology"
  /\ prevFailed' = (prevFailed \/ runFailed)
  /\ prevMutations' = prevMutations + Cardinality(Mutations(calls))
  /\ RunReset
  /\ UNCHANGED <<envVars, dnsZone, file, failures, genState>>
  /\ UNCHANGED othersCyc

\* The position runOnce moves to when a step has finished.
NextStepMappingFirst(step) ==
  CASE step = "topology" -> "hostmapping"
    [] step = "hostmapping" -> "pairs"
    [] step = "pairs" -> "zoneid"
    [] step = "reconcile" -> "generate"
    [] step = "generate" -> "write"
    [] step = "write" -> "done"

NextStep(step) ==
  CASE step = "topology" -> "pairs"
    [] step = "pairs" -> "hostmapping"
    [] step = "hostmapping" -> "zoneid"
    [] step = "reconcile" -> "generate"
    [] step = "generate" -> "write"
    [] step = "write" -> "done"

\* getPangolinDomainCnamePairs, first await: getHostSubnetMapping resolved
\* (a failed query gives the empty mapping).
GetTopology ==
  /\ cycPc = "topology"
  /\ \E ok \in BOOLEAN :
       /\ Outcome(ok)
       /\ runFailed' = (runFailed \/ ~ok)
       /\ hostMapping' = IF ok THEN ParseTopology(TopologyPayload, <<>>)
                         ELSE OnQueryError.mapping
  /\ steps' = Append(steps, "topology")
  /\ cycPc' = NextStep("topology")
  /\ UNCHANGED <<envVars, zoneId, dnsZone, file, cycleNo, prevFailed, prevMutations, genState,
                 pangolinPairs, currentCnames, expectedCnames, reconciled, work, calls,
                 hetznerRecords, newContent, fileBefore, wrote, renamed, ioFailed, threw,
                 result>>
  /\ UNCHANGED dirCalls
  /\ UNCHANGED othersCyc

\* The directory is asked whatever the mapping holds.
DirectoryCallsAlways(resources, mapping) ==
  <<"getOrgId", "listResources">> \o [i \in 1..Len(resources) |-> "getResourceTargets"]

\* The Resource Directory calls of getPangolinDomainCnamePairs: none when
\* the mapping is empty, else the organization, the resources and the
\* targets of each resource.
DirectoryCalls(resources, mapping) ==
  IF mapping = <<>> THEN <<>>
  ELSE <<"getOrgId", "listResources">> \o [i \in 1..Len(resources) |-> "getResourceTargets"]

\* Step 1 resolved: the organization was looked up (an unresolvable
\* organization id gives no pairs), the resources were listed and the pairs
\* built from the mapping; runOnce records their number.
GetPairs ==
  /\ cycPc = "pairs"
  /\ \E orgOk \in BOOLEAN :
       LET built == IF orgOk THEN BuildPairs(directory, hostMapping) ELSE <<>>
       IN /\ hostMapping = <<>> => orgOk
          /\ Outcome(orgOk)
          /\ runFailed' = (runFailed \/ ~orgOk)
          /\ pangolinPairs' = built
          /\ result' = [result EXCEPT !.pangolinMappings = Len(built)]
          /\ dirCalls' = IF orgOk THEN DirectoryCalls(directory, hostMapping)
                         ELSE <<"getOrgId">>
  /\ steps' = Append(steps, "pairs")
  /\ cycPc' = NextStep("pairs")
  /\ UNCHANGED <<envVars, zoneId, dnsZone, file, cycleNo, prevFailed, prevMutations,
                 hostMapping, genState, currentCnames, expectedCnames, reconciled,
                 work, calls, hetznerRecords, newContent, fileBefore, wrote, renamed,
                 ioFailed, threw>>
  /\ UNCHANGED othersCyc

\* this.gatusGenerator.updateHostMapping(hostMapping)
UpdateMapping ==
  /\ cycPc = "hostmapping"
  /\ genState' = UpdateHostMapping(hostMapping)
  /\ steps' = Append(steps, "hostmapping")
  /\ cycPc' = NextStep("hostmapping")
  /\ UNCHANGED <<envVars, zoneId, dnsZone, file, cycleNo, prevFailed, prevMutations, failures,
                 runFailed, hostMapping, pangolinPairs, currentCnames, expectedCnames,
                 reconciled, work, calls, hetznerRecords, newContent, fileBefore, wrote,
                 renamed, ioFailed, threw, result>>
  /\ UNCHANGED dirCalls
  /\ UNCHANGED othersCyc

\* if (!zoneId) return [];
AfterZoneIdAlwaysLists(id) == "list"

AfterZoneId(id) == IF id = NoZoneId \/ id = "" THEN NextStep("reconcile") ELSE "list"

\* getZoneId resolved: a configured id is returned as it is, otherwise the
\* zone is looked up by name (no zone found or a failed request give null);
\* with no zone id syncHetznerDns returns [].
GetZoneId ==
  /\ cycPc = "zoneid"
  /\ IF hetznerZoneId # ""
     THEN /\ zoneId' = hetznerZoneId
          /\ cycPc' = AfterZoneId(hetznerZoneId)
          /\ steps' = steps
          /\ UNCHANGED <<failures, runFailed, calls, hetznerRecords, result>>
     ELSE \E ok \in BOOLEAN :
            LET id == IF ok THEN LookedUpZoneId ELSE NoZoneId
            IN /\ Outcome(ok)
               /\ runFailed' = (runFailed \/ ~ok)
               /\ calls' = Append(calls, Logged("zone", <<>>, NoValue, ok))
               /\ zoneId' = id
               /\ cycPc' = AfterZoneId(id)
               /\ steps' = IF AfterZoneId(id) = "list" THEN steps
                           ELSE Append(steps, "reconcile")
               /\ IF ok
                  THEN UNCHANGED <<hetznerRecords, result>>
                  ELSE /\ hetznerRecords' = <<>>
                       /\ result' = [result EXCEPT !.dnsRecords = 0]
  /\ UNCHANGED <<envVars, dnsZone, file, cycleNo, prevFailed, prevMutations, hostMapping, genState,
                 pangolinPairs, currentCnames, expectedCnames, reconciled, work,
                 newContent, fileBefore, wrote, renamed, ioFailed, threw>>
  /\ UNCHANGED dirCalls
  /\ UNCHANGED othersCyc

\* Where the reconciler goes once its pending calls are known.
AfterCalls(pending) == IF pending = <<>> THEN "refresh" ELSE "mutate"

\* listRecords resolved (an API failure yields []): the lookups are built and
\* the loops run up to their first API call.
ListCurrent ==
  /\ cycPc = "list"
  /\ \E ok \in BOOLEAN :
       LET records == IF ok THEN ListRecords(dnsZone) ELSE <<>>
           current == CurrentCnames(records)
           expected == ExpectedCnames(pangolinPairs, ignoreSubdomains)
           pending == PlanCalls(current, expected, keepSubdomains)
       IN /\ Outcome(ok)
          /\ runFailed' = (runFailed \/ ~ok)
          /\ calls' = Append(calls, Logged("list", <<>>, NoValue, ok))
          /\ currentCnames' = current
          /\ expectedCnames' = expected
          /\ work' = pending
          /\ cycPc' = AfterCalls(pending)
  /\ reconciled' = TRUE
  /\ UNCHANGED <<envVars, steps, zoneId, dnsZone, file, cycleNo, prevFailed, prevMutations, hostMapping, genState,
                 pangolinPairs, hetznerRecords, newContent, fileBefore, wrote, renamed, ioFailed,
                 threw, result>>
  /\ UNCHANGED dirCalls
  /\ UNCHANGED othersCyc

\* The calls the loops have still to make once the awaited call returned
\* true or false: the loops do not look at the return value.
RemainingAfterAbort(pending, ok) == IF ok THEN Tail(pending) ELSE <<>>

RemainingAfter(pending, ok) == Tail(pending)

\* Common part of the three mutation calls: the head of the pending calls is
\* answered by the API, accepted or not, and the loop goes on.
CallAnswered(op, accepted, after) ==
  /\ cycPc = "mutate"
  /\ work # <<>>
  /\ Head(work).op = op
  /\ \E ok \in BOOLEAN :
       /\ ok => accepted
       /\ IF accepted THEN Outcome(ok) ELSE UNCHANGED failures
       /\ runFailed' = (runFailed \/ ~ok)
       /\ dnsZone' = IF ok THEN after ELSE dnsZone
       /\ calls' = Append(calls, Logged(op, Head(work).name,
                                        IF op = "delete" THEN Head(work).value
                                        ELSE FinalValue(Head(work).value), ok))
       /\ work' = RemainingAfter(work, ok)
       /\ cycPc' = AfterCalls(RemainingAfter(work, ok))
  /\ UNCHANGED <<envVars, steps, zoneId, file, cycleNo, prevFailed, prevMutations, hostMapping, genState, pangolinPairs,
                 currentCnames, expectedCnames, reconciled, hetznerRecords,
                 newContent, fileBefore, wrote, renamed, ioFailed, threw, result>>
  /\ UNCHANGED dirCalls
  /\ UNCHANGED othersCyc

\* hetzner.deleteRecord(id, logger, zoneId) returned true or false.
DeleteRecord ==
  /\ work # <<>>
  /\ CallAnswered("delete", DeleteAccepted(dnsZone, Head(work).id),
                  ZoneAfterDelete(dnsZone, Head(work).id))

\* hetzner.updateRecord(id, zoneId, name, 'CNAME', target, 3600) returned.
UpdateRecord ==
  /\ work # <<>>
  /\ CallAnswered("update", UpdateAccepted(dnsZone, Head(work).name, "CNAME"),
                  ZoneAfterUpdate(dnsZone, Head(work).name, "CNAME", Head(work).value))

\* hetzner.createRecord(zoneId, name, 'CNAME', target, 3600) returned.
CreateRecord ==
  /\ work # <<>>
  /\ CallAnswered("create", CreateAccepted(dnsZone, Head(work).name, "CNAME"),
                  ZoneAfterCreate(dnsZone, Head(work).name, "CNAME", Head(work).value))

\* "Return refreshed records": the second listRecords resolved.
RefreshRecords ==
  /\ cycPc = "refresh"
  /\ \E ok \in BOOLEAN :
       LET records == IF ok THEN ListRecords(dnsZone) ELSE <<>>
       IN /\ Outcome(ok)
          /\ runFailed' = (runFailed \/ ~ok)
          /\ calls' = Append(calls, Logged("list", <<>>, NoValue, ok))
          /\ hetznerRecords' = records
          /\ result' = [result EXCEPT !.dnsRecords = Len(records)]
  /\ steps' = Append(steps, "reconcile")
  /\ cycPc' = NextStep("reconcile")
  /\ UNCHANGED <<envVars, zoneId, dnsZone, file, cycleNo, prevFailed, prevMutations, hostMapping, genState,
                 pangolinPairs, currentCnames, expectedCnames, reconciled, work,
                 newContent, fileBefore, wrote, renamed, ioFailed, threw>>
  /\ UNCHANGED dirCalls
  /\ UNCHANGED othersCyc

\* writeGatusConfig: is the rename attempted at all?
NeedsWriteMutant(existing, content) == TRUE

NeedsWrite(existing, content) == existing # content

\* generateGatusConfig resolved: runOnce records the number of endpoints.
Generate ==
  /\ cycPc = "generate"
  /\ LET config == GenerateGatusConfig(genState, pangolinPairs, hetznerRecords,
                                       keepSubdomains, ignoreSubdomains)
     IN /\ newContent' = Dump(config)
        /\ result' = [result EXCEPT !.gatusEndpoints = Len(config.endpoints)]
  /\ steps' = Append(steps, "generate")
  /\ cycPc' = NextStep("generate")
  /\ UNCHANGED <<envVars, zoneId, dnsZone, file, cycleNo, prevFailed, prevMutations, failures,
                 runFailed, hostMapping, genState, pangolinPairs, currentCnames,
                 expectedCnames, reconciled, work, calls, hetznerRecords, fileBefore,
                 wrote, renamed, ioFailed, threw>>
  /\ UNCHANGED dirCalls
  /\ UNCHANGED othersCyc

\* The outcome of the file write is reported in the returned value.
ReturnResultReportsWrite(res, written) ==
  [res EXCEPT !.success = written,
              !.errors = IF written THEN res.errors ELSE Append(res.errors, "message"),
              !.returned = TRUE]

\* this.writeGatusConfig(gatusConfig); return { success: true, summary }: the
\* value writeGatusConfig returned is dropped.
ReturnResult(res, written) == [res EXCEPT !.success = TRUE, !.returned = TRUE]

\* writeGatusConfig runs synchronously (compare, temp file, rename; an I/O
\* error is caught and gives false); runOnce returns {success: true, summary}.
WriteConfig ==
  /\ cycPc = "write"
  /\ \E ioOk \in BOOLEAN :
       LET attempt == NeedsWrite(file, newContent)
       IN /\ ~attempt => ioOk
          /\ Outcome(ioOk)
          /\ runFailed' = (runFailed \/ ~ioOk)
          /\ fileBefore' = file
          /\ file' = IF attempt /\ ioOk THEN newContent ELSE file
          /\ renamed' = (attempt /\ ioOk)
          /\ ioFailed' = ~ioOk
          /\ wrote' = (attempt /\ ioOk)
          /\ result' = ReturnResult(result, ioOk)
  /\ steps' = Append(steps, "write")
  /\ cycPc' = NextStep("write")
  /\ UNCHANGED <<envVars, zoneId, dnsZone, cycleNo, prevFailed, prevMutations, hostMapping,
                 genState, pangolinPairs, currentCnames, expectedCnames, reconciled, work,
                 calls, hetznerRecords, newContent, threw>>
  /\ UNCHANGED dirCalls
  /\ UNCHANGED othersCyc

\* catch (error) { ...; summary.errors.push(error.message);
\*                 return { success: false, summary }; }
CatchResultMutant(res) == [res EXCEPT !.raised = TRUE]

CatchResult(res) ==
  [res EXCEPT !.success = FALSE, !.errors = Append(res.errors, "message"),
              !.returned = TRUE]

\* The step runOnce is suspended in throws: the rest of the try block is
\* skipped and the catch block runs.
StepThrows ==
  /\ cycPc \in {"pairs", "zoneid", "list", "mutate", "refresh", "generate"}
  /\ Outcome(FALSE)
  /\ runFailed' = TRUE
  /\ threw' = TRUE
  /\ result' = CatchResult(result)
  /\ cycPc' = "done"
  /\ UNCHANGED <<envVars, steps, zoneId, dnsZone, file, cycleNo, prevFailed, prevMutations, hostMapping, genState,
                 pangolinPairs, currentCnames, expectedCnames, reconciled, work, calls,
                 hetznerRecords, newContent, fileBefore, wrote, renamed, ioFailed>>
  /\ UNCHANGED dirCalls
  /\ UNCHANGED othersCyc

\* The positions at which runOnce is suspended on a network call, so that
\* another request handler can run.
SuspendedOnNetwork == {"topology", "pairs", "zoneid", "list", "mutate", "refresh"}

\* The generator that reloadConfig leaves in this.gatusGenerator: the one
\* in use is kept.
GeneratorAfterReloadKept(state) == state

\* new GatusConfigGenerator(this.config): a generator whose host state is
\* empty.
GeneratorAfterReload(state) == NoHostState

\* PUT /config or POST /config/restore calls sync.reloadConfig() while no
\* cycle runs or while the cycle is suspended; the stored configuration is
\* the one already loaded.
ReloadConfig ==
  /\ cycPc \in {"idle", "done"} \cup SuspendedOnNetwork
  /\ genState' = GeneratorAfterReload(genState)
  /\ UNCHANGED <<envVars, cycPc, steps, zoneId, dnsZone, file, cycleNo, prevFailed,
                 prevMutations, failures, runFailed, hostMapping, pangolinPairs,
                 currentCnames, expectedCnames, reconciled, work, calls, hetznerRecords,
                 newContent, fileBefore, wrote, renamed, ioFailed, threw, result, dirCalls>>
  /\ UNCHANGED othersCyc

CycNext ==
  \/ RunOnce
  \/ GetTopology
  \/ GetPairs
  \/ UpdateMapping
  \/ GetZoneId
  \/ ListCurrent
  \/ DeleteRecord
  \/ UpdateRecord
  \/ CreateRecord
  \/ RefreshRecords
  \/ Generate
  \/ WriteConfig
  \/ StepThrows

\* The cycles with the configuration routes of the API answering meanwhile.
ReloadNext ==
  \/ CycNext
  \/ ReloadConfig

-----------------------------------------------------------------------------
(***************************************************************************)
(* writeGatusConfig against the file system: what a reader of the output   *)
(* path can see between the file operations of one call                    *)
(***************************************************************************)

\* Bound: blocks of a file's content.
MaxBlocks == 2

RECURSIVE WrTexts(_)
WrTexts(n) ==
  IF n = 0 THEN {<<>>}
  ELSE WrTexts(n - 1) \cup
       { Append(t, b) : t \in { u \in WrTexts(n - 1) : Len(u) = n - 1 }, b \in {"x", "y"} }

WrFile(text) == [exists |-> TRUE, text |-> text]

\* path.join(dir, `gatus-${Date.now()}.yaml.tmp`): where writeFileSync writes.
TmpPathInPlace == "target"

TmpPath == "tmp"

WrIdle ==
  /\ wrFs = [target |-> wrOld, tmp |-> MissingFile]
  /\ wrPc = "idle"
  /\ wrReturn = "none"

WrInit ==
  /\ wrOld \in {MissingFile} \cup { WrFile(t) : t \in WrTexts(MaxBlocks) }
  /\ wrNew \in WrTexts(MaxBlocks)
  /\ WrIdle

\* readFileSync(outputPath) and the comparison with the new content.
WrCompare ==
  /\ wrPc = "idle"
  /\ IF ~NeedsWrite(wrFs["target"], WrFile(wrNew))
     THEN wrPc' = "done" /\ wrReturn' = "false"
     ELSE wrPc' = "open" /\ UNCHANGED wrReturn
  /\ UNCHANGED <<wrOld, wrNew, wrFs>>
  /\ UNCHANGED othersWr

\* mkdirSync, then writeFileSync opens the temp file (truncating it); either
\* may throw.
WrOpen ==
  /\ wrPc = "open"
  /\ \/ /\ wrFs' = [wrFs EXCEPT ![TmpPath] = WrFile(<<>>)]
        /\ wrPc' = IF wrNew = <<>> THEN "rename" ELSE "writing"
     \/ /\ wrPc' = "failed"
        /\ UNCHANGED wrFs
  /\ UNCHANGED <<wrOld, wrNew, wrReturn>>
  /\ UNCHANGED othersWr

\* writeFileSync writes the next block of the content, or throws (disk full).
WrBlock ==
  /\ wrPc = "writing"
  /\ LET n == Len(wrFs[TmpPath].text)
     IN \/ /\ wrFs' = [wrFs EXCEPT ![TmpPath].text = Append(@, wrNew[n + 1])]
           /\ wrPc' = IF n + 1 = Len(wrNew) THEN "rename" ELSE "writing"
        \/ /\ wrPc' = "failed"
           /\ UNCHANGED wrFs
  /\ UNCHANGED <<wrOld, wrNew, wrReturn>>
  /\ UNCHANGED othersWr

\* renameSync(tmpPath, outputPath): one step of the file system; return true.
WrRename ==
  /\ wrPc = "rename"
  /\ \/ /\ wrFs' = IF TmpPath = "target" THEN wrFs
                   ELSE [wrFs EXCEPT !["target"] = wrFs[TmpPath],
                                     ![TmpPath] = MissingFile]
        /\ wrPc' = "done"
        /\ wrReturn' = "true"
     \/ /\ wrPc' = "failed"
        /\ UNCHANGED <<wrFs, wrReturn>>
  /\ UNCHANGED <<wrOld, wrNew>>
  /\ UNCHANGED othersWr

\* catch: unlinkSync(tmpPath), its own failure ignored; return false.
WrCleanup ==
  /\ wrPc = "failed"
  /\ \/ wrFs' = [wrFs EXCEPT ![TmpPath] = MissingFile]
     \/ UNCHANGED wrFs
  /\ wrPc' = "done"
  /\ wrReturn' = "false"
  /\ UNCHANGED <<wrOld, wrNew>>
  /\ UNCHANGED othersWr

WrNext ==
  \/ WrCompare
  \/ WrOpen
  \/ WrBlock
  \/ WrRename
  \/ WrCleanup

-----------------------------------------------------------------------------
(***************************************************************************)
(* ipInSubnet on address strings.  A string is the sequence of its         *)
(* characters; an address is the sequence of its dot-separated parts.      *)
(***************************************************************************)

DigitChars == {"0", "1", "2", "3", "4", "5", "6", "7", "8", "9"}

DigitVal(c) ==
  CASE c = "0" -> 0 [] c = "1" -> 1 [] c = "2" -> 2 [] c = "3" -> 3 [] c = "4" -> 4
    [] c = "5" -> 5 [] c = "6" -> 6 [] c = "7" -> 7 [] c = "8" -> 8 [] c = "9" -> 9

\* The longest run of digits a string starts with.
RECURSIVE LeadingDigits(_)
LeadingDigits(str) ==
  IF str = <<>> \/ Head(str) \notin DigitChars THEN <<>>
  ELSE <<Head(str)>> \o LeadingDigits(Tail(str))

RECURSIVE DigitsValue(_, _)
DigitsValue(ds, acc) ==
  IF ds = <<>> THEN acc ELSE DigitsValue(Tail(ds), acc * 10 + DigitVal(Head(ds)))

\* Number.parseInt(str, 10): an optional sign and the digits that follow,
\* whatever comes after them; NaN when there is no digit.
ParseInt(str) ==
  LET neg == str # <<>> /\ Head(str) = "-"
      ds == LeadingDigits(IF neg THEN Tail(str) ELSE str)
  IN IF ds = <<>> THEN [nan |-> TRUE, val |-> 0]
     ELSE [nan |-> FALSE,
           val |-> IF neg THEN 0 - DigitsValue(ds, 0) ELSE DigitsValue(ds, 0)]

\* The parts of an address as ipToNumber reads them; NaN fails the range
\* test like a negative number (Number.isNaN(val) || val < 0 || val > 255).
ParsedOctets(parts) ==
  [i \in 1..Len(parts) |->
     IF ParseInt(parts[i]).nan THEN 0 - 1 ELSE ParseInt(parts[i]).val]

\* Number.parseInt(prefixStr, 10); with NaN, 1 << (32 - NaN) is 1 << 0, the
\* shift of prefix 32.
ParsedPrefix(str) == IF ParseInt(str).nan THEN 32 ELSE ParseInt(str).val

\* ipInSubnet(ip, subnet) on strings.
StrIpInSubnet(ip, subnet) ==
  IpInSubnet(ParsedOctets(ip),
             [net |-> ParsedOctets(subnet.net), prefix |-> ParsedPrefix(subnet.prefix)])

\* Sample arguments.
IpStrings ==
  { <<<<"1", "0">>, <<"0">>, <<t>>, f>> :
      t \in {"4", "5"},
      f \in { <<"1", "7">>, <<"1">>, <<"3", "0", "0">>, <<"1", "7", "x">>,
              <<"x">>, <<>>, <<"-", "1">> } }
  \cup { << <<"1", "0">>, <<"0">>, <<"4">> >>,
         << <<"1", "0">>, <<"0">>, <<"4">>, <<"1", "7">>, <<"1">> >> }

SubnetStrings ==
  { [net |-> << <<"1", "0">>, <<"0">>, <<"4">>, <<o>> >>, prefix |-> pfx] :
      o \in {"0", "1"},
      pfx \in { <<"2", "4">>, <<"8">>, <<"3", "2">>, <<"1", "6">>, <<"3", "1">> } }

IpIdle == ipPc = "idle" /\ ipResult = FALSE

IpInit ==
  /\ ipArg \in IpStrings
  /\ ipSubnet \in SubnetStrings
  /\ IpIdle

IpCall ==
  /\ ipPc = "idle"
  /\ ipResult' = StrIpInSubnet(ipArg, ipSubnet)
  /\ ipPc' = "done"
  /\ UNCHANGED <<ipArg, ipSubnet>>
  /\ UNCHANGED othersIp

IpNext == IpCall

-----------------------------------------------------------------------------
(***************************************************************************)
(* One generateGatusConfig call on given pairs and zone records            *)
(***************************************************************************)

GenIgnoreChoices == SUBSET { <<"c">>, <<"r1">>, <<"m", "d">> }

\* Retention lists tried with the generator: a name no resource claims and
\* a name a resource claims.
GenKeepChoices == SUBSET { <<"b">>, <<"a">> }

\* A record of the zone that is neither A nor CNAME, as listRecords lists it.
RootTxtRecord ==
  [id |-> RecordId(<<"@">>, "TXT"), name |-> <<"@">>, type |-> "TXT",
   value |-> Val(<<"v=spf1">>, 0)]

GenIdle == gcPc = "idle" /\ gcOut = <<>>

GenInit ==
  /\ cfgSkipTechnical \in BOOLEAN
  /\ cfgAggressive \in BOOLEAN
  /\ \E payload \in {TopologyPayload, <<>>}, resources \in ResourceLists :
       LET mapping == ParseTopology(payload, <<>>)
       IN /\ gcSt = UpdateHostMapping(mapping)
          /\ gcPairs = BuildPairs(resources, mapping)
  /\ \E zone \in InitialZones : gcRecords = <<RootTxtRecord>> \o ListRecords(zone)
  /\ gcKeep \in GenKeepChoices
  /\ gcIgnore \in GenIgnoreChoices
  /\ GenIdle

\* generateGatusConfig(pangolinPairs, hetznerRecords) resolved.
GenCall ==
  /\ gcPc = "idle"
  /\ gcOut' = PangolinGenerated(gcSt, gcPairs, gcIgnore)
                \o HetznerGenerated(gcSt, gcPairs,
                                    HetznerEntries(gcPairs, gcRecords, gcKeep),
                                    gcKeep, gcIgnore)
  /\ gcPc' = "done"
  /\ UNCHANGED <<cfgSkipTechnical, cfgAggressive, gcSt, gcPairs, gcRecords, gcKeep, gcIgnore>>
  /\ UNCHANGED othersGen

GenNext == GenCall

-----------------------------------------------------------------------------
(***************************************************************************)
(* getPangolinDomainCnamePairs over full resource records: live and        *)
(* embedded targets, enabled flags, methods, address strings               *)
(***************************************************************************)

\* (target.method || '').toLowerCase(), on the methods of the samples.
ToLower(str) ==
  CASE str = "HTTPS" -> "https"
    [] str = "HTTP" -> "http"
    [] OTHER -> str

\* let targets = await getResourceTargets(...);
\* if (targets.length === 0) targets = resource.targets || [];
SelectTargets(live, embedded) == IF Len(live) = 0 THEN embedded ELSE live

\* targets.find(t => t.enabled !== false) || targets[0]
SelectTargetFlaggedTrue(targets) ==
  LET flagged == { i \in 1..Len(targets) : targets[i].enabled = "true" }
  IN IF flagged = {} THEN targets[1]
     ELSE targets[CHOOSE i \in flagged : \A j \in flagged : i <= j]

SelectTarget(targets) ==
  LET usable == { i \in 1..Len(targets) : targets[i].enabled # "false" }
  IN IF usable = {} THEN targets[1]
     ELSE targets[CHOOSE i \in usable : \A j \in usable : i <= j]

\* target.port || 443 (a missing port is written 0)
TargetPort(target) == IF target.port = 0 THEN 443 ELSE target.port

\* getCnameForIp on address and subnet strings: the first entry of the
\* mapping whose subnet ipInSubnet says contains the address.
StrGetCnameForIp(ip, mapping) ==
  LET hits == { i \in 1..Len(mapping) : StrIpInSubnet(ip, mapping[i].val) }
  IN IF hits = {} THEN NoCname
     ELSE mapping[CHOOSE i \in hits : \A j \in hits : i <= j].key

\* The protocol of a pair whatever the port says.
TargetProtocolResourceFirst(target, resource) ==
  ResolveProtocol(ToLower(resource.protocol), ToLower(target.method), TargetPort(target))

TargetProtocol(target, resource) ==
  ResolveProtocol(ToLower(target.method), ToLower(resource.protocol), TargetPort(target))

\* The body of the loop for one resource record.
PushFullPair(pairs, resource, mapping) ==
  IF resource.domain = <<>> THEN pairs
  ELSE
    LET domain == IF EndsWith(resource.domain, Domain)
                  THEN resource.domain
                  ELSE resource.domain \o Domain
        targets == SelectTargets(resource.live, resource.targets)
    IN IF targets = <<>> THEN pairs
       ELSE
         LET target == SelectTarget(targets)
             cname == StrGetCnameForIp(target.ip, mapping)
             subdomain == RemoveDotted(domain, Domain)
         IN IF target.ip = <<>> \/ cname = NoCname THEN pairs
            ELSE Append(pairs,
                   [name |-> resource.name,
                    domain |-> domain,
                    subdomain |-> subdomain,
                    cname |-> cname,
                    cname_full |-> Val(cname \o Domain, 0),
                    is_root |-> (subdomain = Domain \/ subdomain = <<>>),
                    resource_name |-> resource.name,
                    target |-> target.ip,
                    port |-> TargetPort(target),
                    protocol |-> TargetProtocol(target, resource)])

\* Sample addresses, as the API gives them: strings.
Ip4(c, d) == << <<"1", "0">>, <<"0">>, c, d >>
AddrAlpha == Ip4(<<"4">>, <<"1", "7">>)
AddrBeta == Ip4(<<"5">>, <<"1">>)
AddrElsewhere == Ip4(<<"7">>, <<"7">>)
AddrTrailing == Ip4(<<"4">>, <<"1", "7", "x">>)
NoAddr == <<>>

Subnet24(c) == [net |-> Ip4(c, <<"0">>), prefix |-> <<"2", "4">>]

\* Host mappings of a cycle.
PbMappings ==
  { <<>>,
    << [key |-> <<"on", "alpha">>, val |-> Subnet24(<<"4">>)] >>,
    << [key |-> <<"on", "alpha">>, val |-> Subnet24(<<"4">>)],
       [key |-> <<"on", "beta">>, val |-> Subnet24(<<"5">>)] >> }

Target(ip, port, method, enabled) ==
  [ip |-> ip, port |-> port, method |-> method, enabled |-> enabled]

Resource(name, domain, protocol, live, embedded) ==
  [name |-> name, domain |-> domain, protocol |-> protocol, live |-> live,
   targets |-> embedded]

\* One resource per case of the loop body.
PbCases ==
  { Resource("live", <<"a">>, "", <<Target(AddrAlpha, 443, "", "true")>>,
             <<Target(AddrBeta, 80, "", "true")>>),
    Resource("embedded", <<"a", "d">>, "http", <<>>, <<Target(AddrBeta, 80, "", "unset")>>),
    Resource("nodomain", <<>>, "", <<Target(AddrAlpha, 443, "", "true")>>, <<>>),
    Resource("notargets", <<"c">>, "", <<>>, <<>>),
    Resource("mixed", <<"c">>, "",
             << Target(AddrAlpha, 22, "", "false"), Target(AddrBeta, 80, "", "unset"),
                Target(AddrAlpha, 443, "", "true") >>, <<>>),
    Resource("disabled", <<"c">>, "",
             << Target(AddrBeta, 8006, "", "false"), Target(AddrAlpha, 80, "", "false") >>,
             <<>>),
    Resource("noip", <<"c">>, "", <<Target(NoAddr, 0, "", "true")>>,
             <<Target(AddrAlpha, 443, "", "true")>>),
    Resource("nosubnet", <<"c">>, "", <<Target(AddrElsewhere, 443, "", "true")>>, <<>>),
    Resource("trailing", <<"c">>, "", <<Target(AddrTrailing, 443, "", "true")>>, <<>>),
    Resource("root", <<"d">>, "https", <<Target(AddrBeta, 8080, "tcp", "true")>>, <<>>) }

\* One resource per combination of target method, resource protocol, port.
PbMethods == {"", "http", "https", "HTTPS", "tcp"}
PbProtocols == {"", "http", "https", "tcp"}
PbPorts == {0, 443, 8006, 80, 22}

PbByProtocol ==
  { Resource("proto", <<"b">>, proto, <<Target(AddrAlpha, port, method, "true")>>, <<>>) :
      method \in PbMethods, proto \in PbProtocols, port \in PbPorts }

PbResourceLists ==
  { <<r>> : r \in PbCases \cup PbByProtocol } \cup { <<r, q>> : r \in PbCases, q \in PbCases }

PbIdle ==
  /\ pbIdx = 0
  /\ pbPairs = <<>>
  /\ pbPc = "idle"

PbInit ==
  /\ pbResources \in PbResourceLists
  /\ pbMapping \in PbMappings
  /\ PbIdle

PbQuiet ==
  /\ pbResources = <<>>
  /\ pbMapping = <<>>
  /\ PbIdle

\* The call up to the loop: no pairs without a host mapping.
PbCall ==
  /\ pbPc = "idle"
  /\ IF pbMapping = <<>>
     THEN pbPc' = "done" /\ pbIdx' = pbIdx
     ELSE pbPc' = "loop" /\ pbIdx' = 1
  /\ UNCHANGED <<pbResources, pbMapping, pbPairs>>
  /\ UNCHANGED othersPb

\* getResourceTargets resolved for the resource the loop is at.
PbResource ==
  /\ pbPc = "loop"
  /\ pbPairs' = PushFullPair(pbPairs, pbResources[pbIdx], pbMapping)
  /\ IF pbIdx < Len(pbResources)
     THEN pbIdx' = pbIdx + 1 /\ pbPc' = pbPc
     ELSE pbIdx' = pbIdx /\ pbPc' = "done"
  /\ UNCHANGED <<pbResources, pbMapping>>
  /\ UNCHANGED othersPb

PbNext ==
  \/ PbCall
  \/ PbResource

-----------------------------------------------------------------------------
(***************************************************************************)
(* getHostSubnetMapping on the text of the payload (topology.js)           *)
(***************************************************************************)

\* str.split(ch): the pieces between the occurrences of ch.
RECURSIVE SplitFrom(_, _, _)
SplitFrom(str, ch, piece) ==
  IF str = <<>> THEN <<piece>>
  ELSE IF Head(str) = ch THEN <<piece>> \o SplitFrom(Tail(str), ch, <<>>)
  ELSE SplitFrom(Tail(str), ch, Append(piece, Head(str)))

SplitOn(str, ch) == SplitFrom(str, ch, <<>>)

\* str.trim()
RECURSIVE TrimStart(_)
TrimStart(str) ==
  IF str # <<>> /\ Head(str) = " " THEN TrimStart(Tail(str)) ELSE str

RECURSIVE TrimEnd(_)
TrimEnd(str) ==
  IF str # <<>> /\ str[Len(str)] = " " THEN TrimEnd(SubSeq(str, 1, Len(str) - 1)) ELSE str

Trim(str) == TrimEnd(TrimStart(str))

\* str.includes(ch)
IncludesChar(str, ch) == \E i \in 1..Len(str) : str[i] = ch

\* ipToSubnet(ip) on the text of the address: four parts, each read by
\* Number.parseInt into 0..255; the subnet keeps the text of the parts.
NoStrSubnet == [net |-> <<>>, prefix |-> <<>>]

PartAccepted(part) == ~ParseInt(part).nan /\ ParseInt(part).val \in 0..255

StrIpToSubnet(ip) ==
  LET parts == SplitOn(ip, ".")
  IN IF Len(parts) # 4 THEN NoStrSubnet
     ELSE IF \A i \in 1..4 : PartAccepted(parts[i])
     THEN [net |-> <<parts[1], parts[2], parts[3], <<"0">>>>, prefix |-> <<"2", "4">>]
     ELSE NoStrSubnet

\* The parsing loop over the pieces of txtData.split(',').
RECURSIVE StrParseTopology(_, _)
StrParseTopology(entries, mapping) ==
  IF entries = <<>> THEN mapping
  ELSE LET trimmed == Trim(Head(entries))
           pieces == SplitOn(trimmed, ":")
           cleanHostname == Trim(pieces[1])
           cleanIp == Trim(pieces[2])
       IN IF ~IncludesChar(trimmed, ":")
          THEN StrParseTopology(Tail(entries), mapping)
          ELSE IF StrIpToSubnet(cleanIp) = NoStrSubnet
          THEN StrParseTopology(Tail(entries), mapping)
          ELSE StrParseTopology(Tail(entries),
                                MapSet(mapping, <<"o", "n", ".">> \o cleanHostname,
                                       StrIpToSubnet(cleanIp)))

\* The text of a list of parts joined by ch.
RECURSIVE JoinWith(_, _)
JoinWith(parts, ch) ==
  IF parts = <<>> THEN <<>>
  ELSE IF Len(parts) = 1 THEN parts[1]
  ELSE parts[1] \o <<ch>> \o JoinWith(Tail(parts), ch)

\* An entry of the payload as text: host, ':' and address, padded with
\* blanks or not.
EntryText(e) ==
  LET pad == IF e.padded THEN <<" ">> ELSE <<>>
  IN pad \o e.host \o pad
       \o (IF e.sep THEN <<":">> ELSE <<>>)
       \o pad \o JoinWith(e.ip, ".") \o pad

PayloadText(entries) == JoinWith([i \in 1..Len(entries) |-> EntryText(entries[i])], ",")

Entry(host, sep, ip, padded) == [host |-> host, sep |-> sep, ip |-> ip, padded |-> padded]

\* Sample entries: well-formed ones, one without ':', and addresses with a
\* part out of range, with three parts, with a part that is not a number,
\* and with a part that has characters after its digits.
TpEntries ==
  { Entry(<<"h", "1">>, TRUE, << <<"1", "0">>, <<"0">>, <<"4">>, <<"5">> >>, FALSE),
    Entry(<<"h", "2">>, TRUE, << <<"1", "0">>, <<"0">>, <<"5">>, <<"9">> >>, TRUE),
    Entry(<<"h", "1">>, TRUE, << <<"1", "0">>, <<"0">>, <<"6">>, <<"1">> >>, FALSE),
    Entry(<<"h", "2">>, TRUE, << <<"1", "0">>, <<"0">>, <<"3", "0", "0">>, <<"1">> >>, FALSE),
    Entry(<<"h", "1">>, FALSE, << <<"1", "0">>, <<"0">>, <<"4">>, <<"5">> >>, FALSE),
    Entry(<<"h", "3">>, TRUE, << <<"1", "0">>, <<"0">>, <<"4">> >>, FALSE),
    Entry(<<"h", "3">>, TRUE, << <<"x">>, <<"0">>, <<"4">>, <<"5">> >>, TRUE),
    Entry(<<"h", "4">>, TRUE, << <<"1", "0">>, <<"0">>, <<"4", "x">>, <<"5">> >>, FALSE),
    Entry(<<>>, FALSE, <<>>, FALSE) }

TpPayloads == UNION { [1..n -> TpEntries] : n \in 0..MaxTxtEntries }

TpIdle ==
  /\ tpMapping = <<>>
  /\ tpPc = "idle"

TpInit ==
  /\ tpEntries \in TpPayloads
  /\ TpIdle

TpQuiet ==
  /\ tpEntries = <<>>
  /\ TpIdle

\* queryTXT resolved with the payload: it is split and parsed.
TpParse ==
  /\ tpPc = "idle"
  /\ tpMapping' = StrParseTopology(SplitOn(PayloadText(tpEntries), ","), <<>>)
  /\ tpPc' = "done"
  /\ UNCHANGED tpEntries
  /\ UNCHANGED othersTp

\* queryTXT rejected: the catch block returns {}.
TpQueryFails ==
  /\ tpPc = "idle"
  /\ tpMapping' = OnQueryError.mapping
  /\ tpPc' = "failed"
  /\ UNCHANGED tpEntries
  /\ UNCHANGED othersTp

TpNext ==
  \/ TpParse
  \/ TpQueryFails

-----------------------------------------------------------------------------
(***************************************************************************)
(* The Resource Directory client: listOrgs, getOrgId, listResources,       *)
(* getResourceTargets (PangolinAPI)                                        *)
(***************************************************************************)

\* JSON values found under a key: nothing (undefined, null), an array of
\* items, or an object that is not an array. An item is the id it carries,
\* "" for an item without an id.
Absent == [kind |-> "absent", items |-> <<>>]

ListOf(items) == [kind |-> "array", items |-> items]

NonList == [kind |-> "object", items |-> <<>>]

EmptyList == ListOf(<<>>)

NoOrgId == "null"

RdLists == { ListOf(<<>>), ListOf(<<"i1">>), ListOf(<<"", "i2">>) }

RdCalls == {"listOrgs", "listResources", "getResourceTargets"}

\* The key each call looks for.
KeyOf(call) ==
  CASE call = "listOrgs" -> "orgs"
    [] call = "listResources" -> "resources"
    [] call = "getResourceTargets" -> "targets"

RdKeys == { KeyOf(call) : call \in RdCalls }

\* An object with at most one of the keys, and what it holds.
NoField == [field |-> "", value |-> Absent]

RdFields ==
  {NoField} \cup [field : RdKeys, value : RdLists \cup {NonList}]

\* obj.<key>
Get(obj, key) == IF obj.field = key THEN obj.value ELSE Absent

\* What body.data is: nothing, an array, or an object with a key.
RdData ==
  {[kind |-> "absent", items |-> <<>>, inner |-> NoField]}
    \cup { [kind |-> "array", items |-> l.items, inner |-> NoField] : l \in RdLists }
    \cup { [kind |-> "object", items |-> <<>>, inner |-> f] : f \in RdFields }

\* The bodies response.json() resolves with: an array, an object with data
\* and a key of its own, null, or a scalar.
RdBodies ==
  { [kind |-> "array", items |-> l.items, data |-> CHOOSE d \in RdData : d.kind = "absent",
     own |-> NoField] : l \in RdLists }
    \cup { [kind |-> "object", items |-> <<>>, data |-> d, own |-> f] : d \in RdData, f \in RdFields }
    \cup { [kind |-> k, items |-> <<>>, data |-> CHOOSE d \in RdData : d.kind = "absent",
            own |-> NoField] : k \in {"null", "scalar"} }

\* if (x): an array, even an empty one, and an object are truthy.
Truthy(value) == value.kind # "absent"

\* data.data?.<key>
NestedValue(body, key) ==
  IF body.data.kind = "object" THEN Get(body.data.inner, key) ELSE Absent

\* What the thrown exception is turned into by the catch block of each call.
OnRequestError == [result |-> EmptyList, orgId |-> NoOrgId]

\* The chain of shape tests of the three calls; "throws" when the chain
\* raises (data.data of null).
Extract(body, key) ==
  IF body.kind = "array" THEN ListOf(body.items)
  ELSE IF body.kind = "null" THEN [kind |-> "throws", items |-> <<>>]
  ELSE IF body.kind = "object"
  THEN IF Truthy(NestedValue(body, key)) THEN NestedValue(body, key)
       ELSE IF body.data.kind = "array" THEN ListOf(body.data.items)
       ELSE IF Truthy(Get(body.own, key)) THEN Get(body.own, key)
       ELSE EmptyList
  ELSE EmptyList

\* listOrgs iterates over what it extracted before returning it: for..of
\* over an object that is not iterable raises inside the try block.
ReturnedBy(call, body) ==
  LET value == Extract(body, KeyOf(call))
  IN IF value.kind = "throws" THEN OnRequestError.result
     ELSE IF call = "listOrgs" /\ value.kind # "array" THEN OnRequestError.result
     ELSE value

\* getOrgId without a configured id: the id of the first organization.
OrgIdFrom(orgs) ==
  IF Len(orgs.items) > 0
  THEN IF orgs.items[1] # "" THEN orgs.items[1] ELSE NoOrgId
  ELSE NoOrgId

RdIdle ==
  /\ rdResult = Absent
  /\ rdOrgId = NoOrgId
  /\ rdPc = "idle"

RdInit ==
  /\ rdCall \in RdCalls
  /\ rdBody \in RdBodies
  /\ RdIdle

RdQuiet ==
  /\ rdCall = "listOrgs"
  /\ rdBody = CHOOSE b \in RdBodies : b.kind = "null"
  /\ RdIdle

\* The request is answered with the body.
RdAnswered ==
  /\ rdPc = "idle"
  /\ rdResult' = ReturnedBy(rdCall, rdBody)
  /\ rdOrgId' = IF rdCall = "listOrgs" THEN OrgIdFrom(ReturnedBy(rdCall, rdBody)) ELSE NoOrgId
  /\ rdPc' = "done"
  /\ UNCHANGED <<rdCall, rdBody>>
  /\ UNCHANGED othersRd

\* fetch rejects or the response is not ok: request throws.
RdRequestFails ==
  /\ rdPc = "idle"
  /\ rdResult' = OnRequestError.result
  /\ rdOrgId' = OnRequestError.orgId
  /\ rdPc' = "failed"
  /\ UNCHANGED <<rdCall, rdBody>>
  /\ UNCHANGED othersRd

RdNext ==
  \/ RdAnswered
  \/ RdRequestFails

-----------------------------------------------------------------------------
(***************************************************************************)
(* listRecords: the pages of record sets of a zone (HetznerDNS)            *)
(***************************************************************************)

\* The server never reports a last page beyond this one.
MaxPages == 3

\* A record set: its values are the 'records' of the rrset, <<>> when the
\* field is missing.
RrSet(name, type, values) == [name |-> name, type |-> type, ttl |-> "300", values |-> values]

RrSetLists ==
  { <<>>,
    <<RrSet("a", "A", <<"v1", "v2">>)>>,
    <<RrSet("b", "CNAME", <<"v3">>), RrSet("c", "TXT", <<>>)>> }

\* An answer to a page request: its record sets and meta.pagination.last_page,
\* 0 when the indicator is missing.
LrResponses == [rrsets : RrSetLists, last_page : 0..MaxPages]

\* The flat records of one record set: one per value.
FlatRecords(rrset) ==
  [i \in 1..Len(rrset.values) |->
     [id |-> <<rrset.name, ":", rrset.type>>, name |-> rrset.name, type |-> rrset.type,
      value |-> rrset.values[i], ttl |-> rrset.ttl, zone_id |-> LookedUpZoneId]]

\* The two loops over a page: every value of every record set is pushed.
RECURSIVE PushPage(_, _)
PushPage(allRecords, rrsets) ==
  IF rrsets = <<>> THEN allRecords
  ELSE PushPage(allRecords \o FlatRecords(Head(rrsets)), Tail(rrsets))

MorePagesInclusive(page, response) ==
  ~(page > (IF response.last_page = 0 THEN 1 ELSE response.last_page))

\* The loop goes on unless page >= (pagination.last_page || 1).
MorePages(page, response) ==
  ~(page >= (IF response.last_page = 0 THEN 1 ELSE response.last_page))

\* What the catch block returns.
OnListError == <<>>

LrInit ==
  /\ lrPage = 0
  /\ lrAnswers = <<>>
  /\ lrRequested = <<>>
  /\ lrAll = <<>>
  /\ lrResult = <<>>
  /\ lrPc = "idle"

LrQuiet == LrInit

\* listRecords is called: page = 1 and the first request is sent.
LrCall ==
  /\ lrPc = "idle"
  /\ lrPage' = 1
  /\ lrRequested' = <<1>>
  /\ lrPc' = "request"
  /\ UNCHANGED <<lrAnswers, lrAll, lrResult>>
  /\ UNCHANGED othersLr

\* The request of the page is answered: its records are pushed, and the
\* loop either ends or requests the next page.
LrPageAnswered ==
  /\ lrPc = "request"
  /\ \E response \in LrResponses :
       /\ lrAnswers' = Append(lrAnswers, response)
       /\ lrAll' = PushPage(lrAll, response.rrsets)
       /\ IF MorePages(lrPage, response)
          THEN /\ lrPage' = lrPage + 1
               /\ lrRequested' = Append(lrRequested, lrPage + 1)
               /\ UNCHANGED <<lrResult, lrPc>>
          ELSE /\ lrResult' = PushPage(lrAll, response.rrsets)
               /\ lrPc' = "done"
               /\ UNCHANGED <<lrPage, lrRequested>>
  /\ UNCHANGED othersLr

\* The request of the page fails: the records pushed so far are dropped.
LrPageFails ==
  /\ lrPc = "request"
  /\ lrResult' = OnListError
  /\ lrPc' = "failed"
  /\ UNCHANGED <<lrPage, lrAnswers, lrRequested, lrAll>>
  /\ UNCHANGED othersLr

LrNext ==
  \/ LrCall
  \/ LrPageAnswered
  \/ LrPageFails

-----------------------------------------------------------------------------
(***************************************************************************)
(* The group of a resource-derived endpoint, on the text of hostnames,     *)
(* domains and addresses (gatus.js updateHostMapping, getGroupForTarget)   *)
(***************************************************************************)

\* str.toLowerCase(), on the letters of the samples.
LowerChar(c) ==
  CASE c = "H" -> "h"
    [] c = "A" -> "a"
    [] c = "B" -> "b"
    [] OTHER -> c

LowerCase(str) == [i \in 1..Len(str) |-> LowerChar(str[i])]

\* str.replace(t, ''): the first occurrence of t is removed.
RemoveFirst(str, t) ==
  LET hits == { i \in 1..(Len(str) - Len(t) + 1) : SubSeq(str, i, i + Len(t) - 1) = t }
  IN IF hits = {} THEN str
     ELSE LET i == CHOOSE k \in hits : \A j \in hits : k <= j
          IN SubSeq(str, 1, i - 1) \o SubSeq(str, i + Len(t), Len(str))

OnPrefix == <<"o", "n", ".">>

OtherGroup == <<"o", "t", "h", "e", "r">>

\* updateHostMapping on the text of the keys: a later host of the same
\* subnet replaces the earlier one in subnetToHostname.
RECURSIVE StrHostStateFrom(_, _)
StrHostStateFrom(mapping, st) ==
  IF mapping = <<>> THEN st
  ELSE LET hostname == RemoveFirst(Head(mapping).key, OnPrefix)
       IN StrHostStateFrom(Tail(mapping),
            [subnetToHostname |-> MapSet(st.subnetToHostname, Head(mapping).val, hostname),
             hostnames |-> IF \E i \in 1..Len(st.hostnames) : st.hostnames[i] = hostname
                           THEN st.hostnames
                           ELSE Append(st.hostnames, hostname)])

StrUpdateHostMapping(mapping) == StrHostStateFrom(mapping, NoHostState)

\* getGroupForTarget: the first subnet that holds the address, else the
\* first hostname found in the domain, else 'other'.
StrGetGroupForTarget(st, targetIp, domain) ==
  LET nets == { i \in 1..Len(st.subnetToHostname) :
                  StrIpInSubnet(targetIp, st.subnetToHostname[i].key) }
      named == { j \in 1..Len(st.hostnames) :
                   Includes(LowerCase(domain), LowerCase(st.hostnames[j])) }
  IN IF nets # {} THEN st.subnetToHostname[CHOOSE i \in nets : \A k \in nets : i <= k].val
     ELSE IF named # {} THEN st.hostnames[CHOOSE j \in named : \A k \in named : j <= k]
     ELSE OtherGroup

\* Sample topologies: none, one host, two hosts in two blocks (in both
\* orders), two hosts in one /24 block.
HostKey2(c) == OnPrefix \o <<"h", c>>

GgMappings ==
  { <<>>,
    << [key |-> HostKey2("a"), val |-> Subnet24(<<"4">>)] >>,
    << [key |-> HostKey2("a"), val |-> Subnet24(<<"4">>)],
       [key |-> HostKey2("b"), val |-> Subnet24(<<"5">>)] >>,
    << [key |-> HostKey2("b"), val |-> Subnet24(<<"5">>)],
       [key |-> HostKey2("a"), val |-> Subnet24(<<"4">>)] >>,
    << [key |-> HostKey2("a"), val |-> Subnet24(<<"4">>)],
       [key |-> HostKey2("b"), val |-> Subnet24(<<"4">>)] >> }

\* Sample targets: in the block of a host, in no block, a host name, and
\* an address with characters after its last number.
GgTargets ==
  { AddrAlpha, AddrBeta, AddrElsewhere, AddrTrailing, << <<"n", "a", "s">> >> }

\* Sample domains: 'app.d', 'HA.d', 'hb-ha.d', 'xhbx.d'.
GgDomains ==
  { <<"a", "p", "p", ".", "d">>,
    <<"H", "A", ".", "d">>,
    <<"h", "b", "-", "h", "a", ".", "d">>,
    <<"x", "h", "b", "x", ".", "d">> }

GgIdle ==
  /\ ggCname = NoCname
  /\ ggSt = NoHostState
  /\ ggGroup = <<>>
  /\ ggPc = "idle"

GgInit ==
  /\ ggMapping \in GgMappings
  /\ ggTarget \in GgTargets
  /\ ggDomain \in GgDomains
  /\ GgIdle

GgQuiet ==
  /\ ggMapping = <<>>
  /\ ggTarget = NoAddr
  /\ ggDomain = <<>>
  /\ GgIdle

\* getPangolinDomainCnamePairs: the cname of the resource's pair.
GgPair ==
  /\ ggPc = "idle"
  /\ ggCname' = StrGetCnameForIp(ggTarget, ggMapping)
  /\ ggPc' = "paired"
  /\ UNCHANGED <<ggMapping, ggTarget, ggDomain, ggSt, ggGroup>>
  /\ UNCHANGED othersGg

\* gatusGenerator.updateHostMapping(hostMapping)
GgUpdateHostMapping ==
  /\ ggPc = "paired"
  /\ ggSt' = StrUpdateHostMapping(ggMapping)
  /\ ggPc' = "mapped"
  /\ UNCHANGED <<ggMapping, ggTarget, ggDomain, ggCname, ggGroup>>
  /\ UNCHANGED othersGg

\* generateConfig, resource loop: the group of the entry's endpoint.
GgGroup ==
  /\ ggPc = "mapped"
  /\ ggGroup' = StrGetGroupForTarget(ggSt, ggTarget, ggDomain)
  /\ ggPc' = "grouped"
  /\ UNCHANGED <<ggMapping, ggTarget, ggDomain, ggCname, ggSt>>
  /\ UNCHANGED othersGg

GgNext ==
  \/ GgPair
  \/ GgUpdateHostMapping
  \/ GgGroup

-----------------------------------------------------------------------------
(***************************************************************************)
(* Registration (auth.js AuthService.register)                             *)
(***************************************************************************)

\* The register calls in flight together.
Callers == {"first", "second"}

NoAuth == [username |-> <<>>, password_hash |-> <<>>]

NotReturned == [success |-> FALSE, error |-> "pending"]

\* Sample usernames 'ab', 'ann', 'bob' and passwords 'secret', 'password',
\* 'passw0rd'.
RegUsernames == { <<"a", "b">>, <<"a", "n", "n">>, <<"b", "o", "b">> }

RegPasswords ==
  { <<"s", "e", "c", "r", "e", "t">>,
    <<"p", "a", "s", "s", "w", "o", "r", "d">>,
    <<"p", "a", "s", "s", "w", "0", "r", "d">> }

\* bcrypt.hash(password, BCRYPT_COST): a value that is not the password and
\* is never empty.
Hash(password) == <<"$2b$12$">> \o password

\* auth.username && auth.password_hash
IsRegistered(auth) == auth.username # <<>> /\ auth.password_hash # <<>>

\* The tests register makes before it hashes: the error it returns, or "ok".
RegisterCheck(auth, username, password) ==
  IF IsRegistered(auth) THEN "User already registered"
  ELSE IF Len(username) < 3 THEN "Username must be at least 3 characters"
  ELSE IF Len(password) < 8 THEN "Password must be at least 8 characters"
  ELSE "ok"

RegIdle ==
  /\ regFile = regAuth
  /\ regPc = [c \in Callers |-> "idle"]
  /\ regArgs = [c \in Callers |-> [username |-> <<>>, password |-> <<>>]]
  /\ regReturn = [c \in Callers |-> NotReturned]

\* A first run (nobody registered) or a configuration that holds a user.
RegInit ==
  /\ regAuth \in { NoAuth,
                   [username |-> <<"e", "v", "e">>,
                    password_hash |-> Hash(<<"p", "a", "s", "s", "w", "o", "r", "d">>)] }
  /\ RegIdle

RegQuiet ==
  /\ regAuth = NoAuth
  /\ RegIdle

\* register(username, password) is called and runs up to its await: it
\* returns an error, or starts hashing.
RegCall(c) ==
  /\ regPc[c] = "idle"
  /\ \E username \in RegUsernames, password \in RegPasswords :
       LET error == RegisterCheck(regAuth, username, password)
       IN /\ regArgs' = [regArgs EXCEPT ![c] = [username |-> username, password |-> password]]
          /\ regPc' = [regPc EXCEPT ![c] = IF error = "ok" THEN "hashing" ELSE "done"]
          /\ regReturn' = IF error = "ok" THEN regReturn
                          ELSE [regReturn EXCEPT ![c] = [success |-> FALSE, error |-> error]]
  /\ UNCHANGED <<regAuth, regFile>>
  /\ UNCHANGED othersReg

\* bcrypt.hash resolved: the credentials are stored, the configuration is
\* saved and {success: true} is returned.
RegHashed(c) ==
  /\ regPc[c] = "hashing"
  /\ regAuth' = [username |-> regArgs[c].username,
                 password_hash |-> Hash(regArgs[c].password)]
  /\ regFile' = regAuth'
  /\ regReturn' = [regReturn EXCEPT ![c] = [success |-> TRUE, error |-> ""]]
  /\ regPc' = [regPc EXCEPT ![c] = "done"]
  /\ UNCHANGED regArgs
  /\ UNCHANGED othersReg

RegNext ==
  \/ \E c \in Callers : RegCall(c)
  \/ \E c \in Callers : RegHashed(c)

-----------------------------------------------------------------------------
(***************************************************************************)
(* Specifications                                                          *)
(***************************************************************************)

TxtQuiet ==
  /\ dnsModule = "retry"
  /\ txtPayload = <<>>
  /\ TxtIdle

DetQuiet ==
  /\ detOverride = NoPort
  /\ detSubdomain = ""
  /\ detOpen = {}
  /\ DetIdle

CycQuiet ==
  /\ dnsZone = {}
  /\ directory = <<>>
  /\ keepSubdomains = {}
  /\ ignoreSubdomains = {}
  /\ hetznerZoneId = ""
  /\ file = MissingFile
  /\ CycIdle

WrQuiet ==
  /\ wrOld = MissingFile
  /\ wrNew = <<>>
  /\ WrIdle

IpQuiet ==
  /\ ipArg = <<>>
  /\ ipSubnet = [net |-> <<>>, prefix |-> <<>>]
  /\ IpIdle

\* The configuration defaults, and no generateConfig call.
GenQuiet ==
  /\ cfgSkipTechnical = TRUE
  /\ cfgAggressive = FALSE
  /\ gcSt = NoHostState
  /\ gcPairs = <<>>
  /\ gcRecords = <<>>
  /\ gcKeep = {}
  /\ gcIgnore = {}
  /\ GenIdle

InitSched == SchedInit /\ TxtQuiet /\ DetQuiet /\ CycQuiet /\ WrQuiet /\ IpQuiet /\ GenQuiet /\ PbQuiet /\ TpQuiet /\ RdQuiet /\ LrQuiet /\ GgQuiet /\ RegQuiet

InitTxt == SchedInit /\ TxtInit /\ DetQuiet /\ CycQuiet /\ WrQuiet /\ IpQuiet /\ GenQuiet /\ PbQuiet /\ TpQuiet /\ RdQuiet /\ LrQuiet /\ GgQuiet /\ RegQuiet

InitDetect == SchedInit /\ TxtQuiet /\ DetInit /\ CycQuiet /\ WrQuiet /\ IpQuiet /\ GenQuiet /\ PbQuiet /\ TpQuiet /\ RdQuiet /\ LrQuiet /\ GgQuiet /\ RegQuiet

InitCycle == SchedInit /\ TxtQuiet /\ DetQuiet /\ CycInit /\ WrQuiet /\ IpQuiet /\ GenQuiet /\ PbQuiet /\ TpQuiet /\ RdQuiet /\ LrQuiet /\ GgQuiet /\ RegQuiet

InitWrite == SchedInit /\ TxtQuiet /\ DetQuiet /\ CycQuiet /\ WrInit /\ IpQuiet /\ GenQuiet /\ PbQuiet /\ TpQuiet /\ RdQuiet /\ LrQuiet /\ GgQuiet /\ RegQuiet

\* The scheduler and the API routes that drive it.
SpecSched ==
  InitSched /\ [][SchedNext]_vars

\* The scheduler when every runOnce call comes back and every pending
\* timeout fires. The continuation of runSync is only ever held back by the
\* bound on unreferenced timeouts, hence strong fairness for it.
SpecSchedLive ==
  InitSched /\ [][SchedNext]_vars /\ SF_vars(RunOnceReturns) /\ WF_vars(TimerFire)

\* The topology query of one cycle.
SpecTxt ==
  InitTxt /\ [][TxtNext]_vars

\* One call of detectProtocolAndPort in which every probe resolves: checkPort settles on connect, on error, or on the
\* socket timeout it sets; the call itself runs to its first await at once.
SpecDetectLive ==
  InitDetect /\ [][DetNext]_vars /\ WF_vars(DetCall) /\ WF_vars(DetProbe)

\* One call of detectProtocolAndPort.
SpecDetect ==
  InitDetect /\ [][DetNext]_vars

\* Successive reconciliation cycles over unchanged inputs.
SpecCycle ==
  InitCycle /\ [][CycNext]_vars

\* One writeGatusConfig call, file operation by file operation.
SpecWrite ==
  InitWrite /\ [][WrNext]_vars

InitIp == SchedInit /\ TxtQuiet /\ DetQuiet /\ CycQuiet /\ WrQuiet /\ IpInit /\ GenQuiet /\ PbQuiet /\ TpQuiet /\ RdQuiet /\ LrQuiet /\ GgQuiet /\ RegQuiet

\* One ipInSubnet call.
SpecIp ==
  InitIp /\ [][IpNext]_vars

InitGen == SchedInit /\ TxtQuiet /\ DetQuiet /\ CycQuiet /\ WrQuiet /\ IpQuiet /\ GenInit /\ PbQuiet /\ TpQuiet /\ RdQuiet /\ LrQuiet /\ GgQuiet /\ RegQuiet

\* One generateGatusConfig call.
SpecGen ==
  InitGen /\ [][GenNext]_vars

InitPairs == SchedInit /\ TxtQuiet /\ DetQuiet /\ CycQuiet /\ WrQuiet /\ IpQuiet /\ GenQuiet /\ PbInit /\ TpQuiet /\ RdQuiet /\ LrQuiet /\ GgQuiet /\ RegQuiet

\* One getPangolinDomainCnamePairs call.
SpecPairs ==
  InitPairs /\ [][PbNext]_vars

InitParse == SchedInit /\ TxtQuiet /\ DetQuiet /\ CycQuiet /\ WrQuiet /\ IpQuiet /\ GenQuiet /\ PbQuiet /\ TpInit /\ RdQuiet /\ LrQuiet /\ GgQuiet /\ RegQuiet

\* The parsing of one TXT payload.
SpecParse ==
  InitParse /\ [][TpNext]_vars

InitDirectory == SchedInit /\ TxtQuiet /\ DetQuiet /\ CycQuiet /\ WrQuiet /\ IpQuiet /\ GenQuiet /\ PbQuiet /\ TpQuiet /\ RdInit /\ LrQuiet /\ GgQuiet /\ RegQuiet

\* One call of the Resource Directory client.
SpecDirectory ==
  InitDirectory /\ [][RdNext]_vars

InitList == SchedInit /\ TxtQuiet /\ DetQuiet /\ CycQuiet /\ WrQuiet /\ IpQuiet /\ GenQuiet /\ PbQuiet /\ TpQuiet /\ RdQuiet /\ LrInit /\ GgQuiet /\ RegQuiet

\* One call of listRecords.
SpecList ==
  InitList /\ [][LrNext]_vars

InitGroup == SchedInit /\ TxtQuiet /\ DetQuiet /\ CycQuiet /\ WrQuiet /\ IpQuiet /\ GenQuiet /\ PbQuiet /\ TpQuiet /\ RdQuiet /\ LrQuiet /\ GgInit /\ RegQuiet

\* The grouping of one resource-derived endpoint.
SpecGroup ==
  InitGroup /\ [][GgNext]_vars

\* Reconciliation cycles during which the configuration may be updated or
\* restored through the API.
SpecReload ==
  InitCycle /\ [][ReloadNext]_vars

InitRegister == SchedInit /\ TxtQuiet /\ DetQuiet /\ CycQuiet /\ WrQuiet /\ IpQuiet /\ GenQuiet /\ PbQuiet /\ TpQuiet /\ RdQuiet /\ LrQuiet /\ GgQuiet /\ RegInit

\* Concurrent POST /auth/register requests.
SpecRegister ==
  InitRegister /\ [][RegNext]_vars

Spec == SpecCycle

-----------------------------------------------------------------------------
(***************************************************************************)
(* Properties                                                              *)
(***************************************************************************)

Range(seq) == { seq[i] : i \in 1..Len(seq) }

\* The calls of the log that carry the given operation.
CallsOf(op) == { i \in 1..Len(calls) : calls[i].op = op }

CallNames(op) == { calls[i].name : i \in CallsOf(op) }

\* syncHetznerDns has returned in this run: its closing listing was made.
SyncReturned == reconciled /\ work = <<>> /\ Cardinality(CallsOf("list")) = 2

\* Every zone API call logged in this run succeeded.
RunCallsOk == \A i \in 1..Len(calls) : calls[i].ok

\* The zone holds a CNAME record of that name and target, up to the final dot.
ZoneHasCname(name, target) ==
  \E r \in dnsZone :
    r.name = name /\ r.type = "CNAME" /\ StripDot(r.value) = StripDot(target)

\* A record of the zone the reconciler manages: a CNAME pointing to on.*
ManagedRecord(r) == r.type = "CNAME" /\ IsManagedValue(StripDot(r.value))

\* The run has gone through writeGatusConfig.
WriteDone == cycPc = "done" /\ ~threw

\* No topology query, zone API call or file operation has failed so far,
\* in this run or in an earlier one.
NothingFailed == ~prevFailed /\ ~runFailed

\* C1: through Scheduler.runSync at most one runOnce is in flight at any
\* time; a runSync call made while the state is RUNNING returns the failure
\* "Sync already running", starts no cycle and leaves nothing queued.
C1_SingleCycleInFlight ==
  /\ [](Len(inflight) <= 1)
  /\ [][(syncState = "RUNNING" /\ PendingTimers' < PendingTimers)
          => /\ lastReturn' = "Sync already running"
             /\ inflight' = inflight
             /\ syncState' = "RUNNING"
             /\ PendingTimers' = PendingTimers - 1]_vars

C1_Witness ==
  /\ lastReturn = "Sync already running"
  /\ syncState = "RUNNING"
  /\ Len(inflight) = 1

C3_Convergence ==
  (SyncReturned /\ RunCallsOk) =>
    /\ \A i \in 1..Len(expectedCnames) :
         ZoneHasCname(expectedCnames[i].key, expectedCnames[i].val)
    /\ \A r \in dnsZone :
         (ManagedRecord(r) /\ ~MapHas(expectedCnames, r.name))
           => r.name \in keepSubdomains

C3_Witness ==
  /\ SyncReturned
  /\ RunCallsOk
  /\ CallsOf("update") # {}
  /\ CallsOf("create") # {}
  /\ Len(expectedCnames) = 2
  /\ \E r \in dnsZone : ManagedRecord(r) /\ ~MapHas(expectedCnames, r.name)

C6_DeleteSafety ==
  [][ /\ (Len(calls') = Len(calls) + 1 /\ calls'[Len(calls')].op = "delete")
         => LET name == calls'[Len(calls')].name
            IN /\ name \notin keepSubdomains
               /\ RRSet(dnsZone, name, "CNAME") # {}
               /\ \A r \in RRSet(dnsZone, name, "CNAME") : ManagedRecord(r)
      /\ (Len(calls') = Len(calls) + 1 /\ calls'[Len(calls')].op = "update")
         => LET name == calls'[Len(calls')].name
            IN /\ RRSet(dnsZone, name, "CNAME") # {}
               /\ \A r \in RRSet(dnsZone, name, "CNAME") : ManagedRecord(r)
      /\ \A r \in dnsZone : ~ManagedRecord(r) => r \in dnsZone'
      /\ \A r \in dnsZone :
           (r.name \in keepSubdomains /\ ~MapHas(expectedCnames, r.name))
             => r \in dnsZone'
    ]_vars

C6_Witness ==
  /\ SyncReturned
  /\ RunCallsOk
  /\ CallsOf("delete") # {}
  /\ \E r \in dnsZone :
       /\ ManagedRecord(r)
       /\ r.name \in keepSubdomains
       /\ ~MapHas(expectedCnames, r.name)
  /\ \E r \in dnsZone : r.type = "CNAME" /\ ~ManagedRecord(r)

\* C7: one reconcile deletes exactly the names of currentCnames that are
\* neither in expectedCnames nor retained, creates exactly the names of
\* expectedCnames that are not in currentCnames, makes no call for a name
\* present in both with the same value, and makes at most one call per name.
C7_DiffPartition ==
  SyncReturned =>
    /\ CallNames("delete") =
         { n \in MapKeys(currentCnames) :
             ~MapHas(expectedCnames, n) /\ n \notin keepSubdomains }
    /\ CallNames("create") = MapKeys(expectedCnames) \ MapKeys(currentCnames)
    /\ \A n \in MapKeys(currentCnames) \cap MapKeys(expectedCnames) :
         MapGet(currentCnames, n).value = StripDot(MapGet(expectedCnames, n))
           => \A i \in Mutations(calls) : calls[i].name # n
    /\ \A i, j \in Mutations(calls) : calls[i].name = calls[j].name => i = j

C7_Witness ==
  /\ SyncReturned
  /\ CallsOf("delete") # {}
  /\ CallsOf("create") # {}
  /\ \E n \in MapKeys(currentCnames) \cap MapKeys(expectedCnames) :
       /\ MapGet(currentCnames, n).value = StripDot(MapGet(expectedCnames, n))
       /\ \A i \in Mutations(calls) : calls[i].name # n

\* C8: within one reconcile every delete call precedes the first create or
\* update call, and the listing that refreshes the records follows the last
\* mutation call.
C8_CallOrder ==
  /\ \A i \in CallsOf("delete") :
       \A j \in CallsOf("create") \cup CallsOf("update") : i < j
  /\ \A i \in CallsOf("list") :
       (\E j \in Mutations(calls) : j < i)
         => /\ work = <<>>
            /\ \A j \in Mutations(calls) : j < i
  /\ Cardinality(CallsOf("list")) = 2 => work = <<>>

C8_Witness ==
  /\ SyncReturned
  /\ CallsOf("delete") # {}
  /\ CallsOf("create") \cup CallsOf("update") # {}
  /\ calls[Len(calls)].op = "list"
  /\ IsMutation(calls[Len(calls) - 1])

\* C9: one topology query is attempted at most 3 times, with a delay after
\* each failed attempt but the last; the first success ends it; when every
\* attempt fails the mapping is empty, an error is logged and nothing is
\* raised.
C9_TxtRetries ==
  LET tries == { i \in 1..Len(txtLog) : txtLog[i] \in {"ok", "fail"} }
  IN /\ Cardinality(tries) <= 3
     /\ ~txtRaised
     /\ \A i \in 1..Len(txtLog) :
          /\ txtLog[i] = "ok" => (i = Len(txtLog) /\ txtPc = "done")
          /\ txtLog[i] = "sleep"
               => /\ i > 1 /\ txtLog[i - 1] = "fail"
                  /\ i = Len(txtLog) => txtPc = "attempt"
          /\ (txtLog[i] = "fail" /\ i < Len(txtLog)) => txtLog[i + 1] = "sleep"
     /\ (txtPc = "done" /\ txtLog[Len(txtLog)] = "fail")
          => (txtMapping = <<>> /\ txtErrLogged)
     /\ (txtPc = "done" /\ txtLog[Len(txtLog)] = "ok")
          => (txtMapping = ParseTopology(txtPayload, <<>>) /\ ~txtErrLogged)

C9_Witness ==
  /\ txtPc = "done"
  /\ txtLog = <<"fail", "sleep", "fail", "sleep", "fail">>
  /\ txtPayload # <<>>
  /\ txtMapping = <<>>
  /\ txtErrLogged
  /\ ~txtRaised

\* C10: for a subdomain with a configured port override,
\* detectProtocolAndPort returns the override port with the protocol of the
\* port table, 'tcp' if the port is not in the table, and probes no port.
C10_PortOverride ==
  (detSubdomain # "" /\ detOverride # NoPort) =>
    /\ detProbes = <<>>
    /\ detPc # "probing"
    /\ detPc = "done" =>
         /\ detResult.port = detOverride
         /\ detOverride = 80 => detResult.protocol = "http"
         /\ detOverride = 8443 => detResult.protocol = "https"
         /\ detOverride = 2222 => detResult.protocol = "tcp"

C10_Witness ==
  /\ detPc = "done"
  /\ detSubdomain = "app"
  /\ detOverride = 80
  /\ 443 \in detOpen
  /\ detProbes = <<>>
  /\ detResult = [protocol |-> "http", port |-> 80]

\* C11: without an override detectProtocolAndPort probes 8443, 8006, 8080,
\* 21, 443, 80, 587, 465, 993, 123, 53 in that order, one probe per step,
\* stops at the first port that accepts a connection and returns that port
\* with its protocol of the table; every port probed before it was closed.
C11_ProbeOrder ==
  LET order == <<8443, 8006, 8080, 21, 443, 80, 587, 465, 993, 123, 53>>
      n == Len(detProbes)
  IN (detSubdomain = "" \/ detOverride = NoPort) =>
       /\ n <= Len(order)
       /\ detProbes = SubSeq(order, 1, n)
       /\ \A i \in 1..(n - 1) : detProbes[i] \notin detOpen
       /\ (n > 0 /\ detProbes[n] \in detOpen)
            => /\ detPc = "done"
               /\ detResult.port = detProbes[n]
               /\ detResult.port \in {8443, 443} => detResult.protocol = "https"
               /\ detResult.port = 80 => detResult.protocol = "http"
               /\ detResult.port = 53 => detResult.protocol = "dns"
       /\ (detPc = "done" /\ detOpen # {}) => (n > 0 /\ detProbes[n] \in detOpen)
       /\ (detPc = "probing") => (n < Len(order) /\ detIdx = n + 1)

C11_Witness ==
  /\ detPc = "done"
  /\ detOverride = NoPort
  /\ detOpen = {8443, 443}
  /\ detProbes = <<8443>>
  /\ detResult = [protocol |-> "https", port |-> 8443]

\* C12: whatever step writeGatusConfig is at, the output path holds either
\* the complete previous content or the complete new content; the content
\* is written to a temporary file and moved over the target by one rename;
\* a call that fails leaves the target with its previous content.
C12_AtomicWrite ==
  /\ wrFs["target"] \in {wrOld, WrFile(wrNew)}
  /\ wrPc \in {"idle", "open", "writing", "rename", "failed"} => wrFs["target"] = wrOld
  /\ wrReturn = "false" => wrFs["target"] = wrOld
  /\ wrReturn = "true" => wrFs["target"] = WrFile(wrNew)

C12_Witness ==
  /\ wrPc = "done"
  /\ wrReturn = "false"
  /\ wrOld.exists
  /\ Len(wrOld.text) = 2
  /\ Len(wrNew) = 2
  /\ wrOld.text # wrNew
  /\ wrFs["tmp"].exists
  /\ Len(wrFs["tmp"].text) = 1
  /\ wrFs["target"] = wrOld

\* A string is a decimal number of 0..255 and nothing else.
WellFormedOctet(str) ==
  /\ str # <<>>
  /\ \A i \in 1..Len(str) : str[i] \in DigitChars
  /\ DigitsValue(str, 0) \in 0..255

WellFormedIp(parts) == Len(parts) = 4 /\ \A i \in 1..4 : WellFormedOctet(parts[i])

\* The 32-bit number of a well-formed address.
IpNumber(parts) ==
  ((DigitsValue(parts[1], 0) * 256 + DigitsValue(parts[2], 0)) * 256
     + DigitsValue(parts[3], 0)) * 256 + DigitsValue(parts[4], 0)

\* The first prefix-length bits of two well-formed addresses are the same.
SamePrefixBits(a, b, prefix) ==
  \/ prefix = 0
  \/ /\ prefix > 0
     /\ IpNumber(a) \div (2 ^ (32 - prefix)) = IpNumber(b) \div (2 ^ (32 - prefix))

\* C13: ipInSubnet(ip, subnet) is true exactly when ip is a well-formed
\* dotted quad whose first prefix-length bits are those of the subnet
\* address, and false for every malformed address.
C13_Original ==
  ipPc = "done" =>
    (ipResult <=>
       /\ WellFormedIp(ipArg)
       /\ SamePrefixBits(ipArg, ipSubnet.net, DigitsValue(ipSubnet.prefix, 0)))

\* C14: the pairs built by one cycle hold at most one pair per subdomain.
C14_Original ==
  \A i, j \in 1..Len(pangolinPairs) :
    pangolinPairs[i].subdomain = pangolinPairs[j].subdomain => i = j

\* A name the filtering rules exclude: it is or contains an ignore-list
\* entry, contains on.<host> or via.<host> with technical-CNAME skipping
\* on, or contains a topology hostname with aggressive host filtering on.
ExcludedName(n) ==
  \/ \E ig \in gcIgnore : ig = n \/ (ig # <<>> /\ Includes(n, ig))
  \/ /\ cfgSkipTechnical
     /\ \E i \in 1..Len(gcSt.hostnames) :
          Includes(n, <<"on">> \o gcSt.hostnames[i])
            \/ Includes(n, <<"via">> \o gcSt.hostnames[i])
  \/ /\ cfgAggressive
     /\ \E i \in 1..Len(gcSt.hostnames) : Includes(n, gcSt.hostnames[i])

\* C15: no endpoint of generateConfig's output comes from a name or a
\* domain that the filtering rules exclude.
C15_NoExcludedEndpoint ==
  \A i \in 1..Len(gcOut) :
    ~ExcludedName(gcOut[i].name) /\ ~ExcludedName(gcOut[i].domain)

C15_Witness ==
  /\ gcPc = "done"
  /\ cfgSkipTechnical
  /\ gcSt.hostnames # <<>>
  /\ <<"c">> \in gcIgnore
  /\ <<"m", "d">> \notin gcIgnore
  /\ \E i \in 1..Len(gcPairs) : gcPairs[i].subdomain = <<"c">>
  /\ \E i \in 1..Len(gcPairs) : gcPairs[i].subdomain = <<"a">>
  /\ \E i \in 1..Len(gcOut) : gcOut[i].domain = <<"a", "d">>
  /\ \E i \in 1..Len(gcOut) : gcOut[i].domain = <<"m", "d">>
  /\ \A i \in 1..Len(gcOut) : gcOut[i].domain # <<"c", "d">>

\* The value createRecord and updateRecord put on the wire for a target:
\* the target's labels followed by one final dot.
SentValue(target) == [labels |-> target.labels, dots |-> 1]

\* An expected entry whose current managed record holds another value, the
\* final dot of either side set apart.
NeedsUpdate(n) ==
  /\ MapHas(currentCnames, n)
  /\ MapGet(currentCnames, n).value # StripDot(MapGet(expectedCnames, n))

\* C16: for every expected entry, updateRecord is called exactly when a
\* current managed record of that name exists with a different value (final
\* dots stripped), createRecord exactly when no current managed record of
\* that name exists, and no call is made when the values are equal; the
\* value sent by a create or update call ends with exactly one dot.
C16_UpsertPhase ==
  /\ \A i \in CallsOf("update") :
       /\ MapHas(expectedCnames, calls[i].name)
       /\ NeedsUpdate(calls[i].name)
       /\ calls[i].value = SentValue(MapGet(expectedCnames, calls[i].name))
  /\ \A i \in CallsOf("create") :
       /\ MapHas(expectedCnames, calls[i].name)
       /\ ~MapHas(currentCnames, calls[i].name)
       /\ calls[i].value = SentValue(MapGet(expectedCnames, calls[i].name))
  /\ SyncReturned =>
       \A n \in MapKeys(expectedCnames) :
         /\ NeedsUpdate(n) => Cardinality({ i \in CallsOf("update") : calls[i].name = n }) = 1
         /\ ~MapHas(currentCnames, n)
              => Cardinality({ i \in CallsOf("create") : calls[i].name = n }) = 1
         /\ (MapHas(currentCnames, n) /\ ~NeedsUpdate(n))
              => \A i \in Mutations(calls) : calls[i].name # n

C16_Witness ==
  /\ SyncReturned
  /\ \E i \in CallsOf("update") \cup CallsOf("create") : calls[i].value.dots = 1
  /\ \E r \in dnsZone :
       /\ r.type = "CNAME"
       /\ r.value.dots = 1
       /\ MapHas(expectedCnames, r.name)
       /\ MapHas(currentCnames, r.name)
       /\ ~NeedsUpdate(r.name)
       /\ \A i \in Mutations(calls) : calls[i].name # r.name

\* A pair the ignore list excludes: its subdomain is listed, or it is a
\* root pair and the list holds '@', the empty string or the base domain.
Excluded(pair) ==
  \/ pair.subdomain \in ignoreSubdomains
  \/ /\ pair.is_root
     /\ ignoreSubdomains \cap { <<"@">>, <<>>, Domain } # {}

RecordNameOf(pair) == IF pair.is_root THEN <<"@">> ELSE pair.subdomain

PairIndexes == 1..Len(pangolinPairs)

\* C17: the expected map holds exactly the record names of the pairs the
\* ignore list does not exclude; no create or update call is made for an
\* excluded pair; a root pair that is not excluded is in the map under the
\* name '@', and calls for it carry that name.
C17_IgnoreExclusion ==
  reconciled =>
    /\ MapKeys(expectedCnames) =
         { RecordNameOf(pangolinPairs[i]) :
             i \in { j \in PairIndexes : ~Excluded(pangolinPairs[j]) } }
    /\ \A i \in PairIndexes :
         Excluded(pangolinPairs[i])
           => \A c \in CallsOf("create") \cup CallsOf("update") :
                /\ calls[c].name # RecordNameOf(pangolinPairs[i])
                /\ calls[c].name # pangolinPairs[i].subdomain
    /\ \A i \in PairIndexes :
         (pangolinPairs[i].is_root /\ ~Excluded(pangolinPairs[i]))
           => /\ MapHas(expectedCnames, <<"@">>)
              /\ ~MapHas(expectedCnames, pangolinPairs[i].subdomain)
              /\ \A c \in Mutations(calls) :
                   calls[c].name # pangolinPairs[i].subdomain
              /\ \E j \in PairIndexes :
                   /\ pangolinPairs[j].is_root
                   /\ MapGet(expectedCnames, <<"@">>) = pangolinPairs[j].cname_full

C17_Witness ==
  /\ SyncReturned
  /\ <<"@">> \in ignoreSubdomains
  /\ \E i \in PairIndexes : pangolinPairs[i].is_root /\ Excluded(pangolinPairs[i])
  /\ expectedCnames = <<>>
  /\ CallsOf("create") \cup CallsOf("update") = {}

\* C18: when the zone id cannot be resolved the reconcile returns an empty
\* record list and makes no listRecords, createRecord, updateRecord or
\* deleteRecord call; with a zone id configured no lookup is made and the
\* configured id is the one the reconcile works with.
C18_ZoneIdResolution ==
  /\ zoneId = NoZoneId
       => /\ CallsOf("list") \cup Mutations(calls) = {}
          /\ ~reconciled
          /\ hetznerRecords = <<>>
          /\ result.dnsRecords = 0
  /\ hetznerZoneId # ""
       => /\ CallsOf("zone") = {}
          /\ zoneId \in {NotAsked, hetznerZoneId}
          /\ CallsOf("list") \cup Mutations(calls) # {} => zoneId = hetznerZoneId

C18_Witness ==
  /\ cycPc = "done"
  /\ zoneId = NoZoneId
  /\ result.returned
  /\ result.success
  /\ Len(calls) = 1
  /\ pangolinPairs # <<>>
  /\ \E r \in dnsZone :
       ManagedRecord(r) /\ r.name \notin keepSubdomains /\ r.name # <<"a">>

\* The step appends a delete, update or create call that returned false.
MutationFails ==
  /\ Len(calls') = Len(calls) + 1
  /\ IsMutation(calls'[Len(calls')])
  /\ ~calls'[Len(calls')].ok

\* C19: a delete, update or create call that fails returns false and
\* raises nothing; the zone stays as it was for that record, and the loops
\* go on with every remaining deletion and upsert, so that a reconcile that
\* returns has attempted every call that was due.
C19_FailedCallSkipsOneRecord ==
  /\ [][MutationFails
          => /\ ~threw'
             /\ ~result'.raised
             /\ cycPc' # "done"
             /\ dnsZone' = dnsZone
             /\ work # <<>>
             /\ work' = Tail(work)]_vars
  /\ [](SyncReturned =>
          /\ CallNames("delete") =
               { n \in MapKeys(currentCnames) :
                   ~MapHas(expectedCnames, n) /\ n \notin keepSubdomains }
          /\ CallNames("update") \cup CallNames("create") =
               { n \in MapKeys(expectedCnames) :
                   ~MapHas(currentCnames, n) \/ NeedsUpdate(n) })

C19_Witness ==
  /\ SyncReturned
  /\ ~threw
  /\ \E i, j, k \in Mutations(calls) :
       /\ i < j /\ j < k
       /\ calls[i].op = "delete" /\ ~calls[i].ok
       /\ calls[j].op = "delete" /\ calls[j].ok
       /\ calls[k].op \in {"update", "create"} /\ calls[k].ok

\* The step a position of runOnce belongs to.
StepOf(pc) == IF pc \in {"zoneid", "list", "mutate", "refresh"} THEN "reconcile" ELSE pc

\* The finished steps are the first steps of the given order, the step in
\* progress is the next one of it, and a run that returns without a throw
\* has gone through all of them.
FollowsOrder(order) ==
  /\ Len(steps) <= Len(order)
  /\ \A i \in 1..Len(steps) : steps[i] = order[i]
  /\ cycPc \notin {"idle", "done"}
       => /\ Len(steps) < Len(order)
          /\ StepOf(cycPc) = order[Len(steps) + 1]
  /\ (cycPc = "done" /\ ~threw) => steps = order

\* What each step leaves behind is there once it is in the log, and is not
\* there before (in the first run of the process).
StepEffects ==
  /\ cycleNo = 1 =>
       /\ "topology" \notin Range(steps) => hostMapping = <<>>
       /\ "pairs" \notin Range(steps) => pangolinPairs = <<>>
       /\ "hostmapping" \notin Range(steps) => genState = NoHostState
       /\ "reconcile" \notin Range(steps) => hetznerRecords = <<>>
       /\ "generate" \notin Range(steps) => newContent = MissingFile
       /\ "write" \notin Range(steps) => file = fileBefore
  /\ "hostmapping" \in Range(steps) => genState = UpdateHostMapping(hostMapping)
  /\ cycPc \in {"topology", "pairs", "hostmapping"} => calls = <<>>

\* C20: within one cycle the steps run in the order: resolve topology,
\* build the pairs, update the generator's grouping state with the
\* topology, reconcile the zone, generate the config, write it if changed;
\* each step starts when the previous one has finished.
C20_StepOrder ==
  /\ FollowsOrder(<<"topology", "pairs", "hostmapping", "reconcile", "generate", "write">>)
  /\ StepEffects

C20_Witness ==
  /\ cycPc = "done"
  /\ ~threw
  /\ steps = <<"topology", "pairs", "hostmapping", "reconcile", "generate", "write">>
  /\ pangolinPairs # <<>>
  /\ genState # NoHostState
  /\ Mutations(calls) # {}
  /\ wrote

\* C20 as stated: the generator's grouping state is updated before the
\* pairs are built.
C20_Original ==
  FollowsOrder(<<"topology", "hostmapping", "pairs", "reconcile", "generate", "write">>)

\* The three ways detectProtocolAndPort returns.
ByOverride ==
  /\ detSubdomain # "" /\ detOverride # NoPort
  /\ detProbes = <<>>
  /\ detResult.port = detOverride

ByFirstOpenPort ==
  /\ detProbes # <<>>
  /\ detProbes[Len(detProbes)] \in detOpen
  /\ detResult.port = detProbes[Len(detProbes)]
  /\ detResult.protocol # "icmp"

ByIcmpFallback ==
  /\ Len(detProbes) = 11
  /\ \A i \in 1..Len(detProbes) : detProbes[i] \notin detOpen
  /\ detResult = [protocol |-> "icmp", port |-> 0]

\* C21: with no override in force and no candidate port open,
\* detectProtocolAndPort returns {protocol: 'icmp', port: 0} after probing
\* each of the 11 candidate ports exactly once; every call returns, in
\* exactly one of the ways override, first open port, icmp fallback.
C21_IcmpFallbackAndTermination ==
  /\ []((detPc = "done" /\ ~(detSubdomain # "" /\ detOverride # NoPort)
          /\ detOpen \cap {8443, 8006, 8080, 21, 443, 80, 587, 465, 993, 123, 53} = {})
        => /\ detResult = [protocol |-> "icmp", port |-> 0]
           /\ Len(detProbes) = 11
           /\ Range(detProbes) = {8443, 8006, 8080, 21, 443, 80, 587, 465, 993, 123, 53}
           /\ \A i, j \in 1..Len(detProbes) : detProbes[i] = detProbes[j] => i = j)
  /\ []((detPc = "done" /\ detResult.protocol = "icmp")
        => (ByIcmpFallback /\ ~(detSubdomain # "" /\ detOverride # NoPort)))
  /\ [](detPc = "done"
        => /\ ByOverride \/ ByFirstOpenPort \/ ByIcmpFallback
           /\ ~(ByOverride /\ ByFirstOpenPort)
           /\ ~(ByOverride /\ ByIcmpFallback)
           /\ ~(ByFirstOpenPort /\ ByIcmpFallback))
  /\ [](detPc = "done" => [](detPc = "done"))
  /\ <>(detPc = "done")

C21_Witness ==
  /\ detPc = "done"
  /\ detOverride = 80
  /\ detSubdomain = ""
  /\ detOpen = {}
  /\ Len(detProbes) = 11
  /\ detResult = [protocol |-> "icmp", port |-> 0]

\* The pairs that the ignore list lets through and that go under a record name.
PairsNamed(n) ==
  { i \in PairIndexes : ~Excluded(pangolinPairs[i]) /\ RecordNameOf(pangolinPairs[i]) = n }

\* C22: when several pairs of a cycle have the same subdomain, the expected
\* map holds one entry for it, and its target is that of the pair
\* processed last.
C22_LastPairWins ==
  reconciled =>
    /\ \A i, j \in 1..Len(expectedCnames) :
         expectedCnames[i].key = expectedCnames[j].key => i = j
    /\ \A i \in 1..Len(expectedCnames) :
         LET same == PairsNamed(expectedCnames[i].key)
         IN /\ same # {}
            /\ \E last \in same :
                 /\ \A k \in same : k <= last
                 /\ expectedCnames[i].val = pangolinPairs[last].cname_full

C22_Witness ==
  /\ reconciled
  /\ Len(expectedCnames) = 1
  /\ \E i, j \in PairsNamed(expectedCnames[1].key) :
       /\ i < j
       /\ pangolinPairs[i].cname_full # pangolinPairs[j].cname_full
       /\ expectedCnames[1].val = pangolinPairs[j].cname_full

\* The subnet holds the address: a well-formed dotted quad whose leading
\* bits are those of the subnet address.
TrulyContains(subnet, ip) ==
  /\ WellFormedIp(ip)
  /\ WellFormedIp(subnet.net)
  /\ SamePrefixBits(ip, subnet.net, DigitsValue(subnet.prefix, 0))

\* The resources the loop of the builder has gone through.
PbProcessed == IF pbPc = "done" /\ pbMapping # <<>> THEN 1..Len(pbResources) ELSE 1..(pbIdx - 1)

PbAllTargets(r) == Range(r.live) \cup Range(r.targets)

\* C23: a pair comes from a resource that has a domain and a target with a
\* non-empty address, its cname is a key of the host mapping whose subnet
\* contains that address, and a resource that yields no pair does not keep
\* the resources after it from yielding theirs.
C23_Original ==
  /\ \A k \in 1..Len(pbPairs) :
       /\ \E i \in PbProcessed :
            /\ pbResources[i].name = pbPairs[k].name
            /\ pbResources[i].domain # <<>>
            /\ \E t \in PbAllTargets(pbResources[i]) :
                 t.ip # <<>> /\ t.ip = pbPairs[k].target
       /\ \E m \in 1..Len(pbMapping) :
            /\ pbMapping[m].key = pbPairs[k].cname
            /\ TrulyContains(pbMapping[m].val, pbPairs[k].target)
  /\ pbPc = "done" =>
       \A i \in 1..Len(pbResources) :
         LET r == pbResources[i]
             targets == SelectTargets(r.live, r.targets)
         IN (/\ r.domain # <<>>
             /\ targets # <<>>
             /\ \E m \in 1..Len(pbMapping) :
                  TrulyContains(pbMapping[m].val, SelectTarget(targets).ip))
            => \E k \in 1..Len(pbPairs) : pbPairs[k].name = r.name

\* The pair the builder made of a resource, if it made one.
PbPairsOf(r) == { k \in 1..Len(pbPairs) : pbPairs[k].name = r.name }

\* The targets the claim says are used, and the target it says is taken.
UsedTargets(r) == IF r.live # <<>> THEN r.live ELSE r.targets

FirstWhere(targets, wanted) ==
  IF wanted = {} THEN targets[1]
  ELSE targets[CHOOSE i \in wanted : \A j \in wanted : i <= j]

NotDisabled(targets) == { i \in 1..Len(targets) : targets[i].enabled # "false" }

FlaggedEnabled(targets) == { i \in 1..Len(targets) : targets[i].enabled = "true" }

\* Every pair carries the address and port of the target taken by the
\* given rule, and a resource whose chosen target has an address in a
\* subnet of the mapping has its pair once the loop is done.
\* The target taken of a list: the first flagged enabled (rule "flagged") or
\* the first not flagged disabled, the first of the list if there is none.
Choice(targets, rule) ==
  FirstWhere(targets, IF rule = "flagged" THEN FlaggedEnabled(targets)
                      ELSE NotDisabled(targets))

PairsFromTarget(rule) ==
  /\ \A i \in PbProcessed :
       LET r == pbResources[i]
       IN \A k \in PbPairsOf(r) :
            /\ UsedTargets(r) # <<>>
            /\ pbPairs[k].target = Choice(UsedTargets(r), rule).ip
            /\ pbPairs[k].port = TargetPort(Choice(UsedTargets(r), rule))
  /\ pbPc = "done" =>
       \A i \in 1..Len(pbResources) :
         LET r == pbResources[i]
         IN /\ (/\ r.domain # <<>>
                /\ UsedTargets(r) # <<>>
                /\ StrGetCnameForIp(Choice(UsedTargets(r), rule).ip, pbMapping) # NoCname)
               => PbPairsOf(r) # {}
            /\ (UsedTargets(r) = <<>> \/ Choice(UsedTargets(r), rule).ip = <<>>)
               => PbPairsOf(r) = {}

\* C24: the builder uses the live targets of a resource, and the targets
\* embedded in the resource record only when there are no live ones; of
\* these it takes the first target not flagged disabled (a target without
\* the flag counts as enabled), or the first target if all are disabled.
C24_TargetSelection == PairsFromTarget("not disabled")

C24_Witness ==
  /\ pbPc = "done"
  /\ Len(pbPairs) = 2
  /\ pbPairs[1].name = "embedded"
  /\ pbPairs[1].target = AddrBeta
  /\ pbPairs[2].name = "mixed"
  /\ pbPairs[2].target = AddrBeta
  /\ pbPairs[2].port = 80

\* C24 as stated: the target taken is the first one flagged enabled, or the
\* first of the list if none carries the flag.
C24_Original == PairsFromTarget("flagged")

\* The protocol the precedence rule gives: the method, the resource-level
\* protocol, then the port.
NamesHttp(str) == str \in {"http", "HTTP"}

NamesHttps(str) == str \in {"https", "HTTPS"}

ProtocolByPrecedence(method, resourceProtocol, port) ==
  IF NamesHttp(method) THEN "http"
  ELSE IF NamesHttps(method) THEN "https"
  ELSE IF NamesHttp(resourceProtocol) THEN "http"
  ELSE IF NamesHttps(resourceProtocol) THEN "https"
  ELSE IF port \in {443, 8006} THEN "https"
  ELSE IF port = 80 THEN "http"
  ELSE "tcp"

\* C25: the protocol of a pair is the method of its target if that is http
\* or https, otherwise the protocol of the resource if that is http or
\* https, otherwise https for port 443 or 8006, http for port 80 and tcp
\* for any other port.
C25_ProtocolPrecedence ==
  \A i \in PbProcessed :
    LET r == pbResources[i]
    IN \A k \in PbPairsOf(r) :
         pbPairs[k].protocol =
           ProtocolByPrecedence(Choice(UsedTargets(r), "not disabled").method,
                                r.protocol, pbPairs[k].port)

C25_Witness ==
  /\ pbPc = "done"
  /\ Len(pbPairs) = 1
  /\ pbResources[1].name = "proto"
  /\ pbResources[1].protocol = "http"
  /\ pbResources[1].live[1].method = "HTTPS"
  /\ pbResources[1].live[1].port = 80
  /\ pbPairs[1].protocol = "https"

\* The entries of the payload that have a separator and a well-formed IPv4
\* address.
ValidEntry(e) == e.sep /\ WellFormedIp(e.ip)

HostKey(e) == <<"o", "n", ".">> \o e.host

Block24(e) == [net |-> <<e.ip[1], e.ip[2], e.ip[3], <<"0">>>>, prefix |-> <<"2", "4">>]

\* The index of the last valid entry of a host in the payload.
LastValidOf(key) ==
  CHOOSE i \in 1..Len(tpEntries) :
    /\ ValidEntry(tpEntries[i]) /\ HostKey(tpEntries[i]) = key
    /\ \A j \in (i + 1)..Len(tpEntries) :
         ~(ValidEntry(tpEntries[j]) /\ HostKey(tpEntries[j]) = key)

MappingKeys(mapping) == { mapping[i].key : i \in 1..Len(mapping) }

\* C26: when the TXT payload has been parsed, every entry with a separator
\* and a valid IPv4 address (blanks around the pieces ignored) has put
\* 'on.<host>' in the mapping with the /24 block of its address, and the
\* entries with no separator or with an invalid address have put nothing
\* there: the keys of the mapping are exactly the hosts of the valid
\* entries. No entry makes the call fail.
C26_Original ==
  tpPc = "done" =>
    /\ MappingKeys(tpMapping)
         = { HostKey(tpEntries[i]) : i \in { j \in 1..Len(tpEntries) : ValidEntry(tpEntries[j]) } }
    /\ \A i \in 1..Len(tpMapping) :
         tpMapping[i].val = Block24(tpEntries[LastValidOf(tpMapping[i].key)])

\* The item list the shapes name, in their order: the body is an array; a
\* list under data.<key>; data is an array; a list under <key>; else empty.
IsList(value) == value.kind = "array"

ListByShape(body, key) ==
  IF body.kind = "array" THEN ListOf(body.items)
  ELSE IF body.kind = "object" /\ IsList(NestedValue(body, key)) THEN NestedValue(body, key)
  ELSE IF body.kind = "object" /\ body.data.kind = "array" THEN ListOf(body.data.items)
  ELSE IF body.kind = "object" /\ IsList(Get(body.own, key)) THEN Get(body.own, key)
  ELSE EmptyList

\* C27: a Resource Directory call that was answered returns the item list
\* of the first matching shape (body array, list under data.<key>, data
\* array, list under <key>, else the empty list), and a call whose request
\* failed returns the empty list, with null for the organization id.
C27_Original ==
  /\ rdPc = "done" => rdResult = ListByShape(rdBody, KeyOf(rdCall))
  /\ rdPc = "failed" => rdResult = EmptyList /\ rdOrgId = NoOrgId

\* The last page an answer reports, a missing indicator counting as 1.
ReportedLast(response) == IF response.last_page = 0 THEN 1 ELSE response.last_page

\* The number of values of the record sets of an answer, and of all answers.
RECURSIVE ValuesIn(_)
ValuesIn(rrsets) ==
  IF rrsets = <<>> THEN 0 ELSE Len(Head(rrsets).values) + ValuesIn(Tail(rrsets))

RECURSIVE ValuesOfAll(_)
ValuesOfAll(answers) ==
  IF answers = <<>> THEN 0 ELSE ValuesIn(Head(answers).rrsets) + ValuesOfAll(Tail(answers))

\* The flat records with a given name, type and value.
CountIn(records, name, type, value) ==
  Cardinality({ i \in 1..Len(records) :
                  records[i].name = name /\ records[i].type = type /\ records[i].value = value })

\* Every value of every record set of every answer is in the records.
EveryValueIn(records, answers) ==
  \A p \in 1..Len(answers) : \A k \in 1..Len(answers[p].rrsets) :
    LET rrset == answers[p].rrsets[k]
    IN \A i \in 1..Len(rrset.values) :
         CountIn(records, rrset.name, rrset.type, rrset.values[i]) >= 1

\* C28: listRecords requests the pages 1, 2, ... in increasing order; it
\* goes on while the page number is below the last page the answer reports
\* (a missing indicator counting as 1) and returns after the first page
\* whose number is at least that; what it returns has one flat record per
\* value of every record set of every requested page, and nothing else;
\* when a page request fails it returns the empty list.
C28_Pagination ==
  /\ \A i \in 1..Len(lrRequested) : lrRequested[i] = i
  /\ lrPc \in {"request", "done", "failed"} =>
       \A p \in 1..Len(lrAnswers) :
         (p < Len(lrRequested)) <=> (p < ReportedLast(lrAnswers[p]))
  /\ lrPc = "done" =>
       /\ Len(lrAnswers) = Len(lrRequested)
       /\ Len(lrAnswers) >= ReportedLast(lrAnswers[Len(lrAnswers)])
       /\ Len(lrResult) = ValuesOfAll(lrAnswers)
       /\ EveryValueIn(lrResult, lrAnswers)
  /\ lrPc = "failed" => lrResult = <<>>

\* listRecords has returned after three pages that held at least four values,
\* two of them in one record set.
C28_Witness ==
  /\ lrPc = "done"
  /\ Len(lrRequested) = 3
  /\ Len(lrResult) >= 4
  /\ \E p \in 1..3 : \E k \in 1..Len(lrAnswers[p].rrsets) : Len(lrAnswers[p].rrsets[k].values) = 2

\* An entry of generateConfig's output that comes from a zone record (its
\* host is a domain name) or from a resource (its host is the target address).
ZoneDerived(out) == out.endpoint.host.ip = <<>>

ResourceDerived(out) == out.endpoint.host.ip # <<>>

\* The name is claimed by a resource entry.
Claimed(name) == \E i \in 1..Len(gcPairs) : gcPairs[i].subdomain = name

FullDomainOf(name) == IF name = <<"@">> THEN Domain ELSE name \o Domain

ZoneEndpointFor(name) ==
  \E i \in 1..Len(gcOut) : ZoneDerived(gcOut[i]) /\ gcOut[i].name = name

\* C29: in the output of generateConfig every zone-derived endpoint comes
\* from a record of type A or CNAME; a zone record whose name a resource
\* entry claims has no endpoint unless its name is on the retention list,
\* and has one when it is (its type being A or CNAME and no filtering rule
\* excluding it); and all resource-derived endpoints precede all
\* zone-derived endpoints.
C29_Original ==
  gcPc = "done" =>
    /\ \A i \in 1..Len(gcOut) :
         ZoneDerived(gcOut[i]) =>
           \E k \in 1..Len(gcRecords) :
             gcRecords[k].name = gcOut[i].name /\ gcRecords[k].type \in {"A", "CNAME"}
    /\ \A k \in 1..Len(gcRecords) :
         Claimed(gcRecords[k].name) =>
           IF gcRecords[k].name \in gcKeep
           THEN (/\ gcRecords[k].type \in {"A", "CNAME"}
                 /\ ~ExcludedName(gcRecords[k].name)
                 /\ ~ExcludedName(FullDomainOf(gcRecords[k].name)))
                  => ZoneEndpointFor(gcRecords[k].name)
           ELSE ~ZoneEndpointFor(gcRecords[k].name)
    /\ \A i \in 1..Len(gcOut) : \A j \in 1..Len(gcOut) :
         (ZoneDerived(gcOut[i]) /\ ResourceDerived(gcOut[j])) => j < i

\* C30: every endpoint of generateConfig's output whose protocol is https
\* has client.insecure set to true, whether it comes from a resource or
\* from a zone record whose protocol was detected by probing or taken from
\* a port override.
C30_Original ==
  \A i \in 1..Len(gcOut) :
    gcOut[i].endpoint.scheme = "https" => gcOut[i].endpoint.insecure

\* The hosts of the topology whose block holds the target address, and
\* those whose name occurs in the domain whatever the case of the letters.
HostOfKey(key) == SubSeq(key, Len(OnPrefix) + 1, Len(key))

HostsHolding(target) ==
  { HostOfKey(ggMapping[i].key) :
      i \in { k \in 1..Len(ggMapping) : TrulyContains(ggMapping[k].val, target) } }

NamedInDomain(i) == Includes(LowerCase(ggDomain), LowerCase(HostOfKey(ggMapping[i].key)))

\* C31: the group of a resource-derived endpoint is a topology hostname
\* whose subnet contains the target address; when no subnet contains it,
\* the first topology hostname that occurs in the full domain, letters
\* compared without case; otherwise 'other'.
C31_Original ==
  ggPc = "grouped" =>
    IF HostsHolding(ggTarget) # {} THEN ggGroup \in HostsHolding(ggTarget)
    ELSE IF \E i \in 1..Len(ggMapping) : NamedInDomain(i)
    THEN \E i \in 1..Len(ggMapping) :
           /\ NamedInDomain(i)
           /\ \A j \in 1..(i - 1) : ~NamedInDomain(j)
           /\ ggGroup = HostOfKey(ggMapping[i].key)
    ELSE ggGroup = OtherGroup

\* C32: once the scheduler has been started, whenever no sync is RUNNING
\* a timer for a future scheduled run is pending, whatever the
\* interleaving of timer firings and manual triggers has been.
C32_Original ==
  (started /\ syncState # "RUNNING") => PendingTimers > 0

\* C33: at most one scheduled-run timer is pending at any time, whatever
\* the interleaving of start, restart, timer firings, manual syncs and
\* sync completions has been.
C33_Original ==
  PendingTimers <= 1

\* A scheduled-run timer fires while a sync is RUNNING: its runSync call is
\* rejected.
RejectedCall == syncState = "RUNNING" /\ PendingTimers' < PendingTimers

\* C34: syncState is always IDLE, RUNNING or ERROR; currentRunId is set
\* exactly while syncState is RUNNING; a run leaves RUNNING for IDLE when
\* it succeeded and for ERROR when it failed, and every accepted run does
\* leave RUNNING; a rejected runSync call changes none of syncState,
\* currentRunId, lastRun, lastResult and the logger's run id.
C34_StateMachine ==
  /\ [](syncState \in SyncStates)
  /\ []((currentRunId # "null") <=> (syncState = "RUNNING"))
  /\ [][(syncState = "RUNNING" /\ syncState' # "RUNNING")
          => \/ syncState' = "IDLE" /\ lastResult' = "ok"
             \/ syncState' = "ERROR" /\ lastResult' = "fail"]_vars
  /\ [][RejectedCall
          => UNCHANGED <<syncState, currentRunId, lastRun, lastResult, loggerRunId>>]_vars
  /\ (syncState = "RUNNING") ~> (syncState # "RUNNING")

\* A run that saw a rejected call has failed and left RUNNING for ERROR.
C34_Witness ==
  /\ lastReturn = "Sync already running"
  /\ syncState = "ERROR"
  /\ lastResult = "fail"
  /\ currentRunId = "null"
  /\ inflight = <<>>

\* The pairs step of this run has resolved and the run's mapping is empty.
EmptyTopology ==
  /\ \E i \in 1..Len(steps) : steps[i] = "pairs"
  /\ hostMapping = <<>>

\* C35: when topology resolution yields an empty mapping the cycle makes no
\* Resource Directory call and builds no pair; the reconciler still runs, its
\* expected map is empty, it issues a delete call for every listed managed
\* CNAME whose name is not retained, and when every zone call succeeded no
\* managed CNAME outside the retention list is left in the zone.
C35_EmptyTopology ==
  /\ EmptyTopology => (dirCalls = <<>> /\ pangolinPairs = <<>>)
  /\ (EmptyTopology /\ reconciled) => expectedCnames = <<>>
  /\ (EmptyTopology /\ SyncReturned) =>
       /\ CallNames("delete") =
            { n \in MapKeys(currentCnames) : n \notin keepSubdomains }
       /\ CallsOf("create") = {} /\ CallsOf("update") = {}
       /\ RunCallsOk =>
            \A r \in dnsZone : ManagedRecord(r) => r.name \in keepSubdomains

C35_Witness ==
  /\ EmptyTopology
  /\ SyncReturned
  /\ RunCallsOk
  /\ directory # <<>>
  /\ dirCalls = <<>>
  /\ CallsOf("delete") # {}
  /\ \E r \in dnsZone : ManagedRecord(r) /\ r.name \in keepSubdomains

\* The desired pairs of this run whose subdomain is on the ignore list.
IgnoredPairs ==
  { i \in 1..Len(pangolinPairs) : pangolinPairs[i].subdomain \in ignoreSubdomains }

\* C36: when a desired pair's subdomain is on the ignore list and the listed
\* zone holds a managed CNAME under that name which is not retained, the
\* reconciler leaves the name out of the expected map and issues a delete
\* call for it; the record is gone once that call has succeeded.
C36_IgnoredNotShielded ==
  SyncReturned =>
    \A i \in IgnoredPairs :
      LET name == pangolinPairs[i].subdomain
      IN (MapHas(currentCnames, name) /\ name \notin keepSubdomains) =>
           /\ ~MapHas(expectedCnames, name)
           /\ \E j \in CallsOf("delete") :
                /\ calls[j].name = name
                /\ calls[j].ok =>
                     ~\E r \in dnsZone :
                        r.name = name /\ ManagedRecord(r)
                          /\ StripDot(r.value) = MapGet(currentCnames, name).value

C36_Witness ==
  /\ SyncReturned
  /\ RunCallsOk
  /\ \E i \in IgnoredPairs :
       LET name == pangolinPairs[i].subdomain
       IN /\ MapHas(currentCnames, name)
          /\ name \notin keepSubdomains
          /\ name \in CallNames("delete")
          /\ ~\E r \in dnsZone : r.name = name /\ ManagedRecord(r)

\* runOnce has returned from the end of its try block: no step threw.
ReturnedWithoutThrow == result.returned /\ ~threw

\* C37: whenever runOnce returns and no step threw, it returns success true
\* and an empty errors list, whatever failed inside the components (the
\* topology query, the organization or zone lookup, a listing, a create,
\* update or delete call, the file write); errors holds an entry only when a
\* step threw.
C37_ComponentFailuresHidden ==
  /\ ReturnedWithoutThrow => (result.success /\ result.errors = <<>>)
  /\ result.errors # <<>> => threw

C37_Witness ==
  /\ ReturnedWithoutThrow
  /\ runFailed
  /\ ioFailed
  /\ result.success
  /\ result.errors = <<>>

\* C38: for every resource-derived endpoint (a target for which a CNAME
\* was chosen), the monitoring group is the topology hostname of that
\* CNAME, the CNAME without its 'on.' prefix, for every topology mapping,
\* two hosts in one /24 block included.
C38_Original ==
  (ggPc = "grouped" /\ ggCname # NoCname) => ggGroup = HostOfKey(ggCname)

\* C39: the generator used by the generation step of a run carries the
\* topology mapping resolved by that run, also when reloadConfig has run
\* while the cycle was suspended on a network call.
C39_Original ==
  cycPc = "generate" => genState = UpdateHostMapping(hostMapping)

\* The register calls that have returned success.
Succeeded == { c \in Callers : regReturn[c].success }

\* C40: over every interleaving of concurrent register calls registration
\* succeeds at most once, and the stored username and password hash stay
\* those of the call that succeeded.
C40_Original ==
  /\ Cardinality(Succeeded) <= 1
  /\ \A c \in Succeeded :
       regAuth = [username |-> regArgs[c].username,
                  password_hash |-> Hash(regArgs[c].password)]

====
